---- MODULE Spec2Model ----
(***************************************************************************)
(* A model of the dstack-mr-gcp measurement engine: the register extend    *)
(* fold (measureLog), the GUID-table / TDX-metadata parser of the firmware *)
(* image, and the orchestrator MeasureTdxQemu with the identifiers derived *)
(* from its registers.                                                     *)
(*                                                                         *)
(* Byte strings are sequences of items.  An item is either one raw byte,   *)
(* [t |-> "b", v |-> 0..255], or a whole digest, [t |-> alg, v |-> msg],   *)
(* which stands for the alg-digest of the byte string msg and counts for   *)
(* the digest's width.  Digests are therefore collision-free and one-way:  *)
(* a digest equals another exactly when algorithm and message agree.       *)
(***************************************************************************)
EXTENDS Integers, Sequences, FiniteSets, TLC

VARIABLES
    log,        \* measureLog: the event log being folded
    logPos,     \* measureLog: number of entries consumed by the loop
    mr,         \* measureLog: the local register mr
    nHashed,    \* measureLog: number of SHA-384 computations made so far
    logPc,      \* measureLog: "idle", "loop" or "done"
    logResult,  \* measureLog: the returned slice
    fw,         \* the firmware buffer (bytes)
    fwCap,      \* capacity of the firmware slice, >= Len(fw)
    fwPc,       \* position inside GetConfigurationFirmwareVolume and its callees
    gtLo, gtHi, \* ParseGuidMap: guidTable is fw[gtLo:gtHi]
    guidMap,    \* ParseGuidMap: GUID string -> <<lo, hi>>, the payload fw[lo:hi]
    rdPos,      \* GetTdxMetadataSections: offset in fw of the reader's next byte
    descriptor, \* GetTdxMetadataSections: the TdxMetadataDescriptor read
    sections,   \* GetTdxMetadataSections: the sections appended so far
    secRet,     \* what GetTdxMetadataSections returned
    cfvRet,     \* what GetConfigurationFirmwareVolume returned
    configuration,  \* MeasureTdxQemu: the configuration name
    kernelData,     \* MeasureTdxQemu: the UKI
    initrdData,     \* MeasureTdxQemu: the initrd bytes
    memorySize,     \* MeasureTdxQemu: the memory size
    cpuCount,       \* MeasureTdxQemu: the CPU count
    kernelCmdline,  \* MeasureTdxQemu: the command line (UTF-8 bytes)
    pc,             \* MeasureTdxQemu: position in the function body
    measurements,   \* MeasureTdxQemu: the TdxMeasurements being filled
    locals,         \* MeasureTdxQemu: configEvents, cfvImageHash, ukiAuthHash, kernelPEData
    nDigests,       \* MeasureTdxQemu: digests computed since the call
    ret,            \* MeasureTdxQemu: what the call returned
    drvCall,        \* which derivation is called on a measurement record
    drvM,           \* the TdxMeasurements record the derivation reads
    drvKp,          \* CalculateMrAggregated: the mrKeyProvider string (ASCII codes)
    drvPc,          \* "idle", "call" or "done"
    drvOut,         \* what the derivation returned
    mtSections,     \* computeMrtd: m.sections
    mtVariant,      \* computeMrtd: the variant argument
    mtFwLen,        \* computeMrtd: len(fw)
    mtPc,           \* computeMrtd: position in the function body
    mtSec,          \* computeMrtd: sections already handled by the outer loop
    mtPage,         \* computeMrtd: the page variable of the running inner loop
    mtHashed,       \* computeMrtd: the buffers written into h so far, in order
    mtRet,          \* computeMrtd: what the call returned
    tvPc,           \* parseTdvfMetadata: position in the function body
    tvTablesLo,     \* parseTdvfMetadata: tables is fw[tvTablesLo : tvTablesLo + tvTablesLen]
    tvTablesLen,    \* parseTdvfMetadata: len(tables)
    tvOffset,       \* parseTdvfMetadata: offset, an index into tables
    tvData,         \* parseTdvfMetadata: data is fw[tvData[1] : tvData[2]]
    tvMetaOffset,   \* parseTdvfMetadata: tdvfMetaOffset
    tvNumber,       \* parseTdvfMetadata: tdvfNumberOfSectionEntries
    tvSection,      \* parseTdvfMetadata: the loop variable section
    tvSections,     \* parseTdvfMetadata: meta.sections
    tvRet,          \* parseTdvfMetadata: what the call returned
    hobMemorySize,  \* measureTdxQemuTdHob: memorySize (uint64, little-endian bytes)
    hobMeta,        \* measureTdxQemuTdHob: meta, "nil" or its sections
    tdHob,          \* measureTdxQemuTdHob: the blob built so far
    remainingMemory,\* measureTdxQemuTdHob: remainingMemory (uint64, little-endian bytes)
    hobPc,          \* measureTdxQemuTdHob: position in the function body
    hobRecords,     \* measureTdxQemuTdHob: calls of addMemoryResourceHob made
    hobRet,         \* measureTdxQemuTdHob: the digest returned
    configurations, \* main: the configurations to process
    rtmr0s,         \* main: the RTMR0 strings collected by the loop
    mrtds,          \* main: the MRTD strings of the output
    measured,       \* main: the records the calls of the loop returned, in order
    batchPc,        \* main: position in the function body
    output,         \* main: the measurementOutput that is printed
    parConfig,      \* concurrent runs: the configuration of each run
    parPc,          \* concurrent runs: the position of each run
    parOut,         \* concurrent runs: each run's own locals and result
    footerMem,      \* the backing array of workloadFooter
    egGuid,         \* encodeGUID: the guid argument (ASCII codes)
    egAtoms,        \* encodeGUID: atoms
    egIdx,          \* encodeGUID: atoms handled by the loop so far
    egData,         \* encodeGUID: data
    egPc,           \* encodeGUID: position in the function body
    egRet,          \* encodeGUID: what the call returned
    gptHeader,      \* calculateUEFIDiskGUIDHash: header
    gptPartition,   \* calculateUEFIDiskGUIDHash: partition
    gptBuf,         \* calculateUEFIDiskGUIDHash: measurementBuf
    gptPc,          \* calculateUEFIDiskGUIDHash: position in the function body
    gptRet          \* calculateUEFIDiskGUIDHash: the digest returned

logVars == <<log, logPos, mr, nHashed, logPc, logResult>>
fwVars == <<fw, fwCap, fwPc, gtLo, gtHi, guidMap, rdPos, descriptor, sections,
            secRet, cfvRet>>
runInputs == <<configuration, kernelData, initrdData, memorySize, cpuCount,
               kernelCmdline>>
runVars == <<runInputs, pc, measurements, locals, nDigests, ret>>
drvVars == <<drvCall, drvM, drvKp, drvPc, drvOut>>
mtVars == <<mtSections, mtVariant, mtFwLen, mtPc, mtSec, mtPage, mtHashed, mtRet>>
tvVars == <<tvPc, tvTablesLo, tvTablesLen, tvOffset, tvData, tvMetaOffset, tvNumber,
            tvSection, tvSections, tvRet>>
hobVars == <<hobMemorySize, hobMeta, tdHob, remainingMemory, hobPc, hobRecords, hobRet>>
batchVars == <<configurations, rtmr0s, mrtds, measured, batchPc, output>>
parVars == <<parConfig, parPc, parOut, footerMem>>
encVars == <<egGuid, egAtoms, egIdx, egData, egPc, egRet,
             gptHeader, gptPartition, gptBuf, gptPc, gptRet>>
auxVars == <<mtVars, tvVars, hobVars, batchVars, parVars, encVars>>

(***************************************************************************)
(* Bounds of the model.                                                    *)
(***************************************************************************)
MaxLogLen == 3

(***************************************************************************)
(* Digest and encoding primitives.                                         *)
(***************************************************************************)
Raw(bs) == [i \in 1..Len(bs) |-> [t |-> "b", v |-> bs[i]]]

Zeros(n) == [i \in 1..n |-> 0]

\* The sequences over S of length at most n.
RECURSIVE SeqsUpTo(_, _)
SeqsUpTo(S, n) ==
    IF n = 0 THEN {<<>>}
    ELSE LET shorter == SeqsUpTo(S, n - 1)
         IN  shorter \cup {Append(q, x) : q \in shorter, x \in S}

RECURSIVE ItemLen(_)
ItemLen(it) ==
    CASE it.t = "b" -> 1
      [] it.t \in {"sha384", "authenticode", "const384"} -> 48
      [] it.t \in {"sha256", "keccak256"} -> 32
      [] it.t = "hex" -> 2 * ItemLen(it.v[1])
      [] it.t = "gpt" -> 228
      [] it.t = "crc32" -> 4

RECURSIVE ByteLen(_)
ByteLen(s) == IF s = <<>> THEN 0 ELSE ItemLen(Head(s)) + ByteLen(Tail(s))

measureSha384(data) == <<[t |-> "sha384", v |-> data]>>

(***************************************************************************)
(* measureLog: the register extend fold.                                   *)
(***************************************************************************)
mrInit == Raw(Zeros(48))

\* A plausible slip: the entry is written to the hash before the register.
extendOnceSwapped(reg, entry) == measureSha384(entry \o reg)

\* One iteration of the loop: h.Write(mr); h.Write(entry); copy(mr, h.Sum()).
\* A plausible slip: the register is not fed into the hash.
extendOnceForgetful(reg, entry) == measureSha384(entry)

extendOnce(reg, entry) == measureSha384(reg \o entry)

RECURSIVE measureLogFrom(_, _)
measureLogFrom(reg, entries) ==
    IF entries = <<>> THEN reg
    ELSE measureLogFrom(extendOnce(reg, Head(entries)), Tail(entries))

measureLog(entries) == measureLogFrom(mrInit, entries)

(***************************************************************************)
(* Little-endian fields of a byte buffer.  Buffers are sequences of bytes  *)
(* 0..255; Go's zero-based half-open b[lo:hi] is Slice(b, lo, hi).         *)
(***************************************************************************)
Slice(b, lo, hi) == SubSeq(b, lo + 1, hi)

LE16(b, off) == b[off + 1] + 256 * b[off + 2]

\* The value of a 4-byte little-endian field as a Go int.  Values of 2^30
\* and above are reported as 2^30: they are only ever compared with buffer
\* lengths, all far below it.
Clamp == 1073741824

U32Int(b4) ==
    IF b4[4] >= 64 THEN Clamp
    ELSE b4[1] + 256 * b4[2] + 65536 * b4[3] + 16777216 * b4[4]

LE16B(n) == <<n % 256, (n \div 256) % 256>>
LE32B(n) == <<n % 256, (n \div 256) % 256, (n \div 65536) % 256, (n \div 16777216) % 256>>
LE64B(n) == LE32B(n) \o <<0, 0, 0, 0>>

(***************************************************************************)
(* EfiGuid and its String method.  A string of hex digits is a sequence of *)
(* digit values 0..15, with Hyphen for '-'.                                *)
(***************************************************************************)
Hyphen == 16

HexByte(x) == <<x \div 16, x % 16>>

RECURSIVE HexBytes(_)
HexBytes(bs) == IF bs = <<>> THEN <<>> ELSE HexByte(Head(bs)) \o HexBytes(Tail(bs))

\* binary.Read(LittleEndian) of the 16 GUID bytes g into EfiGuid, then
\* Sprintf("%08x-%04x-%04x-%x-%x", Data1, Data2, Data3, Data4[0:2], Data4[2:8]).
EfiGuidString(g) ==
    HexBytes(<<g[4], g[3], g[2], g[1]>>) \o <<Hyphen>> \o
    HexBytes(<<g[6], g[5]>>) \o <<Hyphen>> \o
    HexBytes(<<g[8], g[7]>>) \o <<Hyphen>> \o
    HexBytes(<<g[9], g[10]>>) \o <<Hyphen>> \o
    HexBytes(SubSeq(g, 11, 16))

\* "e47a6535-984a-4798-865e-4685a7bf8ec2"
TdxMetadataOffsetGuid ==
    <<14, 4, 7, 10, 6, 5, 3, 5, Hyphen, 9, 8, 4, 10, Hyphen, 4, 7, 9, 8, Hyphen,
      8, 6, 5, 14, Hyphen, 4, 6, 8, 5, 10, 7, 11, 15, 8, 14, 12, 2>>

fwGuidTableOffsetFromEnd == 32
fwGuidEntrySize == 18

\* convertToGuidEntry over the 18 bytes that end at offset hi of buffer b.
\* getLastGuidTableEntry(b[lo:hi]) fails when hi - lo < fwGuidEntrySize.
getLastGuidTableEntry(b, lo, hi) ==
    IF hi - lo < fwGuidEntrySize
    THEN [kind |-> "error", Size |-> 0, Guid |-> <<>>]
    ELSE [kind |-> "ok",
          Size |-> LE16(b, hi - fwGuidEntrySize),
          Guid |-> Slice(b, hi - 16, hi)]

\* parseGuidTable(b): the GUID table without its footer entry, as the
\* offsets <<lo, hi>> of b[lo:hi].  Slicing with lo > hi aborts the process.
parseGuidTable(b) ==
    IF Len(b) < fwGuidTableOffsetFromEnd
    THEN [kind |-> "error", lo |-> 0, hi |-> 0]
    ELSE LET n == Len(b) - fwGuidTableOffsetFromEnd
             entry == getLastGuidTableEntry(b, 0, n)
         IN  IF entry.kind = "error" THEN [kind |-> "error", lo |-> 0, hi |-> 0]
             ELSE IF n < entry.Size THEN [kind |-> "error", lo |-> 0, hi |-> 0]
             ELSE IF n - entry.Size > n - fwGuidEntrySize
                  THEN [kind |-> "panic", lo |-> 0, hi |-> 0]
             ELSE [kind |-> "ok", lo |-> n - entry.Size, hi |-> n - fwGuidEntrySize]

MapPut(m, k, x) == [y \in (DOMAIN m) \cup {k} |-> IF y = k THEN x ELSE m[y]]

\* One iteration of the loop of ParseGuidMap over guidTable = b[lo:hi], hi > lo.
guidMapIter(b, lo, hi, m) ==
    LET entry == getLastGuidTableEntry(b, lo, hi)
    IN  IF entry.kind = "error" THEN [kind |-> "error", hi |-> hi, map |-> m]
        ELSE IF hi - lo < entry.Size THEN [kind |-> "error", hi |-> hi, map |-> m]
        ELSE IF hi - entry.Size > hi - fwGuidEntrySize
             THEN [kind |-> "panic", hi |-> hi, map |-> m]
        ELSE [kind |-> "ok",
              hi |-> hi - entry.Size,
              map |-> MapPut(m, EfiGuidString(entry.Guid),
                             <<hi - entry.Size, hi - fwGuidEntrySize>>)]

\* getTdxMetadataOffset after ParseGuidMap succeeded:
\* int(binary.LittleEndian.Uint32(guidmap[TdxMetadataOffsetGuid][:4])).
\* A missing key gives a nil slice, and nil[:4] aborts; a payload shorter
\* than 4 bytes is resliced up to its capacity, which runs to the end of
\* the firmware's backing array.
getTdxMetadataOffset(b, cap, m) ==
    IF TdxMetadataOffsetGuid \notin DOMAIN m THEN [kind |-> "panic", offset |-> 0]
    ELSE LET lo == m[TdxMetadataOffsetGuid][1]
         IN  IF lo + 4 > cap THEN [kind |-> "panic", offset |-> 0]
             ELSE [kind |-> "ok", offset |-> U32Int(Slice(b, lo, lo + 4))]

\* binary.Read of a TdxMetadataDescriptor from the 16 bytes at offset pos.
readDescriptor(b, pos) ==
    IF pos + 16 > Len(b) THEN [kind |-> "error"]
    ELSE [kind |-> "ok",
          Signature |-> Slice(b, pos, pos + 4),
          MetadataLength |-> Slice(b, pos + 4, pos + 8),
          Version |-> Slice(b, pos + 8, pos + 12),
          NumberOfSections |-> Slice(b, pos + 12, pos + 16)]

\* binary.Read of a TdxMetadataSection from the 32 bytes at offset pos.
readSection(b, pos) ==
    IF pos + 32 > Len(b) THEN [kind |-> "error"]
    ELSE [kind |-> "ok",
          ImageOffset |-> Slice(b, pos, pos + 4),
          RawDataSize |-> Slice(b, pos + 4, pos + 8),
          MemoryAddress |-> Slice(b, pos + 8, pos + 16),
          MemorySize |-> Slice(b, pos + 16, pos + 24),
          Type |-> Slice(b, pos + 24, pos + 28),
          Attributes |-> Slice(b, pos + 28, pos + 32)]

\* uint32 addition, wrapping modulo 2^32, on 4-byte little-endian values.
U32Add(x, y) ==
    LET s1 == x[1] + y[1]
        s2 == x[2] + y[2] + (s1 \div 256)
        s3 == x[3] + y[3] + (s2 \div 256)
        s4 == x[4] + y[4] + (s3 \div 256)
    IN  <<s1 % 256, s2 % 256, s3 % 256, s4 % 256>>

zeroSection ==
    [kind |-> "ok", ImageOffset |-> <<0, 0, 0, 0>>, RawDataSize |-> <<0, 0, 0, 0>>,
     MemoryAddress |-> Zeros(8), MemorySize |-> Zeros(8),
     Type |-> <<0, 0, 0, 0>>, Attributes |-> <<0, 0, 0, 0>>]

\* A plausible slip: the last section of type 1 instead of the first.
cfvSectionLast(secs) ==
    LET idx == {i \in 1..Len(secs) : secs[i].Type = <<1, 0, 0, 0>>}
    IN  IF idx = {} THEN zeroSection
        ELSE secs[CHOOSE i \in idx : \A j \in idx : j <= i]

\* The loop of GetConfigurationFirmwareVolume: the first section of type 1,
\* or the zero value of TdxMetadataSection when there is none.
cfvSection(secs) ==
    LET idx == {i \in 1..Len(secs) : secs[i].Type = <<1, 0, 0, 0>>}
    IN  IF idx = {} THEN zeroSection
        ELSE secs[CHOOSE i \in idx : \A j \in idx : i <= j]

\* Bytes lo..hi-1 of the backing array of b: those past Len(b), inside the
\* spare capacity, read as zero.
BackingSlice(b, lo, hi) ==
    [i \in 1..(hi - lo) |-> IF lo + i <= Len(b) THEN b[lo + i] ELSE 0]

\* A plausible slip: a section list without a type-1 section is an error.
cfvBytesRequireSection(b, cap, secs) ==
    LET sec == cfvSection(secs)
        base == U32Int(sec.ImageOffset)
        limit == U32Int(U32Add(sec.ImageOffset, sec.RawDataSize))
    IN  IF sec = zeroSection THEN [kind |-> "error", bytes |-> <<>>]
        ELSE IF base > Len(b) \/ limit < base THEN [kind |-> "error", bytes |-> <<>>]
        ELSE IF limit > cap THEN [kind |-> "panic", bytes |-> <<>>]
        ELSE [kind |-> "ok", bytes |-> BackingSlice(b, base, limit)]

\* The tail of GetConfigurationFirmwareVolume, after the sections were read.
cfvBytes(b, cap, secs) ==
    LET sec == cfvSection(secs)
        base == U32Int(sec.ImageOffset)
        limit == U32Int(U32Add(sec.ImageOffset, sec.RawDataSize))
    IN  IF base > Len(b) THEN [kind |-> "error", bytes |-> <<>>]
        ELSE IF base > Len(b) \/ limit < base THEN [kind |-> "error", bytes |-> <<>>]
        ELSE IF limit > cap THEN [kind |-> "panic", bytes |-> <<>>]
        ELSE [kind |-> "ok", bytes |-> BackingSlice(b, base, limit)]

(***************************************************************************)
(* GetConfigurationFirmwareVolume -> GetTdxMetadataSections ->             *)
(* getTdxMetadataOffset -> ParseGuidMap -> parseGuidTable, as a machine    *)
(* over the firmware buffer: one action per call, loop iteration or        *)
(* return.  An error or an abort of a callee ends the whole call chain.    *)
(***************************************************************************)
NoSecRet == [kind |-> "none", sections |-> <<>>]
NoCfvRet == [kind |-> "none", bytes |-> <<>>]

FwFail(kind) ==
    /\ secRet' = [kind |-> kind, sections |-> <<>>]
    /\ cfvRet' = [kind |-> kind, bytes |-> <<>>]
    /\ fwPc' = "done"

FwParseGuidTable ==
    /\ fwPc = "parseGuidTable"
    /\ LET r == parseGuidTable(fw)
       IN  IF r.kind = "ok"
           THEN /\ gtLo' = r.lo /\ gtHi' = r.hi
                /\ fwPc' = "guidMapLoop"
                /\ UNCHANGED <<secRet, cfvRet>>
           ELSE /\ FwFail(r.kind)
                /\ UNCHANGED <<gtLo, gtHi>>
    /\ UNCHANGED <<fw, fwCap, guidMap, rdPos, descriptor, sections>>
    /\ UNCHANGED <<logVars, runVars, drvVars, auxVars>>

FwGuidMapIter ==
    /\ fwPc = "guidMapLoop"
    /\ gtHi - gtLo # 0
    /\ LET r == guidMapIter(fw, gtLo, gtHi, guidMap)
       IN  IF r.kind = "ok"
           THEN /\ gtHi' = r.hi /\ guidMap' = r.map
                /\ UNCHANGED <<fwPc, secRet, cfvRet>>
           ELSE /\ FwFail(r.kind)
                /\ UNCHANGED <<gtHi, guidMap>>
    /\ UNCHANGED <<fw, fwCap, gtLo, rdPos, descriptor, sections>>
    /\ UNCHANGED <<logVars, runVars, drvVars, auxVars>>

\* ParseGuidMap returns the map; getTdxMetadataOffset reads the offset;
\* GetTdxMetadataSections checks it and reads the descriptor.
FwReadDescriptor ==
    /\ fwPc = "guidMapLoop"
    /\ gtHi - gtLo = 0
    /\ LET o == getTdxMetadataOffset(fw, fwCap, guidMap)
       IN  IF o.kind # "ok" THEN FwFail(o.kind) /\ UNCHANGED <<rdPos, descriptor>>
           ELSE IF Len(fw) < o.offset THEN FwFail("error") /\ UNCHANGED <<rdPos, descriptor>>
           ELSE LET d == readDescriptor(fw, Len(fw) - o.offset)
                IN  IF d.kind # "ok" THEN FwFail("error") /\ UNCHANGED <<rdPos, descriptor>>
                    ELSE /\ descriptor' = d
                         /\ rdPos' = Len(fw) - o.offset + 16
                         /\ fwPc' = "sections"
                         /\ UNCHANGED <<secRet, cfvRet>>
    /\ UNCHANGED <<fw, fwCap, gtLo, gtHi, guidMap, sections>>
    /\ UNCHANGED <<logVars, runVars, drvVars, auxVars>>

FwReadSection ==
    /\ fwPc = "sections"
    /\ Len(sections) < U32Int(descriptor.NumberOfSections)
    /\ LET sec == readSection(fw, rdPos)
       IN  IF sec.kind # "ok" THEN FwFail("error") /\ UNCHANGED <<rdPos, sections>>
           ELSE /\ sections' = Append(sections, sec)
                /\ rdPos' = rdPos + 32
                /\ UNCHANGED <<fwPc, secRet, cfvRet>>
    /\ UNCHANGED <<fw, fwCap, gtLo, gtHi, guidMap, descriptor>>
    /\ UNCHANGED <<logVars, runVars, drvVars, auxVars>>

FwSectionsReturn ==
    /\ fwPc = "sections"
    /\ Len(sections) >= U32Int(descriptor.NumberOfSections)
    /\ secRet' = [kind |-> "ok", sections |-> sections]
    /\ fwPc' = "cfv"
    /\ UNCHANGED <<fw, fwCap, gtLo, gtHi, guidMap, rdPos, descriptor, sections, cfvRet>>
    /\ UNCHANGED <<logVars, runVars, drvVars, auxVars>>

FwCfvReturn ==
    /\ fwPc = "cfv"
    /\ cfvRet' = cfvBytes(fw, fwCap, secRet.sections)
    /\ fwPc' = "done"
    /\ UNCHANGED <<fw, fwCap, gtLo, gtHi, guidMap, rdPos, descriptor, sections, secRet>>
    /\ UNCHANGED <<logVars, runVars, drvVars, auxVars>>

FwNext ==
    \/ FwParseGuidTable
    \/ FwGuidMapIter
    \/ FwReadDescriptor
    \/ FwReadSection
    \/ FwSectionsReturn
    \/ FwCfvReturn

\* The parser's locals at the moment GetConfigurationFirmwareVolume is called.
FwCall ==
    /\ fwPc = "parseGuidTable"
    /\ gtLo = 0 /\ gtHi = 0 /\ guidMap = <<>> /\ rdPos = 0
    /\ descriptor = [kind |-> "none"] /\ sections = <<>>
    /\ secRet = NoSecRet /\ cfvRet = NoCfvRet

(***************************************************************************)
(* Firmware images of the model, laid out as OVMF does: the CFV bytes, the *)
(* TDVF descriptor and its sections, the GUID table (entries are payload,  *)
(* 2-byte length, 16-byte GUID), the table footer and 32 trailing bytes.   *)
(***************************************************************************)
MaxSections == 2
SpareCap == 8

\* 96b582de-1fb2-45f7-baea-a366c55a082d in binary form.
tableFooterGuidBytes ==
    <<222, 130, 181, 150, 178, 31, 247, 69, 186, 234, 163, 102, 197, 90, 8, 45>>
\* e47a6535-984a-4798-865e-4685a7bf8ec2 in binary form.
tdxMetadataOffsetGuidBytes ==
    <<53, 101, 122, 228, 74, 152, 152, 71, 134, 94, 70, 133, 167, 191, 142, 194>>
otherGuidBytes == [i \in 1..16 |-> 17]

Sec(off, raw, addr, mem, type, attr) ==
    LE32B(off) \o LE32B(raw) \o LE64B(addr) \o LE64B(mem) \o LE32B(type) \o LE32B(attr)

SecCfv == Sec(0, 4, 4096, 4096, 1, 0)
SecCfv2 == Sec(2, 2, 8192, 4096, 1, 0)
SecTdHob == Sec(0, 0, 8425472, 8192, 2, 0)
SecMisaligned == Sec(0, 0, 4097, 4096, 0, 0)
SecShortExtend == Sec(0, 4, 12288, 4096, 0, 1)

\* Type-1 sections whose byte range leaves the firmware buffer: the range
\* ends past the buffer, starts past it, or its 32-bit end wraps around
\* (offset 8, size 2^32 - 4).
SecCfvPast == Sec(0, 180, 4096, 4096, 1, 0)
SecCfvFar == Sec(4096, 0, 4096, 4096, 1, 0)
SecCfvWrap ==
    LE32B(8) \o <<252, 255, 255, 255>> \o LE64B(4096) \o LE64B(4096) \o LE32B(1) \o LE32B(0)

CfvSectionKinds == {SecCfv, SecTdHob, SecCfvPast, SecCfvFar, SecCfvWrap}

GoodSectionKinds == {SecCfv, SecCfv2, SecTdHob}
BadSectionKinds == {SecMisaligned, SecShortExtend}

RECURSIVE Flatten(_)
Flatten(ss) == IF ss = <<>> THEN <<>> ELSE Head(ss) \o Flatten(Tail(ss))

BuildFw(p) ==
    LET nsec == Len(p.secs)
        entries == (IF p.hasMeta
                    THEN LE32B(fwGuidTableOffsetFromEnd + fwGuidEntrySize
                               + 22 + (IF p.extra THEN 20 ELSE 0) + 16 + 32 * nsec)
                         \o LE16B(22) \o tdxMetadataOffsetGuidBytes
                    ELSE <<>>)
                   \o (IF p.extra THEN <<9, 9>> \o LE16B(20) \o otherGuidBytes ELSE <<>>)
        tablesLen == CASE p.tableLen = "ok" -> fwGuidEntrySize + Len(entries)
                       [] p.tableLen = "zero" -> 0
                       [] p.tableLen = "big" -> 65535
    IN  <<170, 187, 204, 221>>
        \o (IF p.sigOk THEN <<84, 68, 86, 70>> ELSE <<88, 68, 86, 70>>)
        \o LE32B(16 + 32 * nsec) \o LE32B(p.version) \o LE32B(nsec)
        \o Flatten(p.secs)
        \o entries
        \o LE16B(tablesLen)
        \o (IF p.footerOk THEN tableFooterGuidBytes ELSE otherGuidBytes)
        \o Zeros(32)

FwParams ==
    [footerOk : BOOLEAN, tableLen : {"ok", "zero", "big"}, sigOk : BOOLEAN,
     version : {1, 2}, hasMeta : BOOLEAN, extra : BOOLEAN,
     secs : SeqsUpTo(GoodSectionKinds \cup BadSectionKinds, MaxSections)]

\* Well-formed images whose sections include type-1 sections of every kind.
FwCfvParams ==
    [footerOk : {TRUE}, tableLen : {"ok"}, sigOk : {TRUE}, version : {1},
     hasMeta : {TRUE}, extra : BOOLEAN,
     secs : SeqsUpTo(CfvSectionKinds, MaxSections)]

(***************************************************************************)
(* measureTdxKernelCmdline: the command line with one NUL byte appended,   *)
(* transformed from UTF-8 to UTF-16LE, then hashed.  The encoder is        *)
(* modelled for ASCII bytes and for two-byte UTF-8 sequences; any other    *)
(* byte is invalid UTF-8 here and is encoded as U+FFFD.                    *)
(***************************************************************************)
RECURSIVE utf16le(_)
utf16le(d) ==
    IF d = <<>> THEN <<>>
    ELSE IF d[1] < 128 THEN <<d[1], 0>> \o utf16le(Tail(d))
    ELSE IF /\ d[1] >= 194 /\ d[1] <= 223 /\ Len(d) >= 2
            /\ d[2] >= 128 /\ d[2] <= 191
         THEN LET r == (d[1] - 192) * 64 + (d[2] - 128)
              IN  <<r % 256, r \div 256>> \o utf16le(Tail(Tail(d)))
    ELSE <<253, 255>> \o utf16le(Tail(d))

\* A plausible slip: the terminating NUL is not appended.
cmdlineBytesNoNul(cmdline) == utf16le(cmdline)

\* The bytes measureTdxKernelCmdline hashes.
cmdlineBytes(cmdline) == utf16le(Append(cmdline, 0))

measureTdxKernelCmdline(cmdline) == measureSha384(Raw(cmdlineBytes(cmdline)))

(***************************************************************************)
(* The configuration table and the package-level event hashes.  Their      *)
(* values are fixed 48-byte digests, kept as named constants.              *)
(***************************************************************************)
Const384(name) == <<[t |-> "const384", v |-> name]>>

machineConfigurations ==
    [name \in {"c3-standard-4", "c3-standard-8"} |->
        [TdHobHash |-> Const384(<<name, "TdHobHash">>),
         AcpiLoaderHash |-> Const384(<<name, "AcpiLoaderHash">>),
         AcpiRsdpHash |-> Const384(<<name, "AcpiRsdpHash">>),
         AcpiTablesHash |-> Const384(<<name, "AcpiTablesHash">>)]]

\* The zero value of a configuration's events.
noConfigEvents ==
    [TdHobHash |-> <<>>, AcpiLoaderHash |-> <<>>, AcpiRsdpHash |-> <<>>,
     AcpiTablesHash |-> <<>>]

\* A plausible slip: the ok flag of the map lookup is not looked at.
lookupConfigurationUnchecked(name) ==
    IF name \in DOMAIN machineConfigurations
    THEN [ok |-> TRUE, events |-> machineConfigurations[name]]
    ELSE [ok |-> TRUE, events |-> noConfigEvents]

\* A plausible slip: the events are those of the shape with cpuCount CPUs.
lookupConfigurationByCpuCount(name) ==
    IF name \in DOMAIN machineConfigurations
    THEN [ok |-> TRUE,
          events |-> machineConfigurations[IF cpuCount = 2 THEN "c3-standard-8"
                                           ELSE name]]
    ELSE [ok |-> FALSE, events |-> noConfigEvents]

\* configEvents, ok := machineConfigurations[configuration]
lookupConfiguration(name) ==
    IF name \in DOMAIN machineConfigurations
    THEN [ok |-> TRUE, events |-> machineConfigurations[name]]
    ELSE [ok |-> FALSE, events |-> noConfigEvents]

secureBootHash == Const384(<<"", "secureBootHash">>)
pkHash == Const384(<<"", "pkHash">>)
kekHash == Const384(<<"", "kekHash">>)
dbHash == Const384(<<"", "dbHash">>)
dbxHash == Const384(<<"", "dbxHash">>)
boot0000Hash == Const384(<<"", "boot0000Hash">>)
boot0001Hash == Const384(<<"", "boot0001Hash">>)
boot0002Hash == Const384(<<"", "boot0002Hash">>)

(***************************************************************************)
(* The collaborators of the orchestrator.  A UKI is a record               *)
(*   [file, authOk, peOk, linux]:                                          *)
(* authenticode.Parse succeeds on it iff authOk, pe.NewFile iff peOk, and  *)
(* linux tells what its .linux section is: "ok", "badPE" (present, but no  *)
(* PE image that Authenticode can parse), "unreadable" (Data() fails) or   *)
(* "missing".  An Authenticode digest is a digest item over the image.     *)
(***************************************************************************)
authenticodeHash(image) == <<[t |-> "authenticode", v |-> image]>>

ukiImage(uki) == <<uki.file, "uki">>
linuxImage(uki) == <<uki.file, ".linux">>

\* extractKernel: panics when the UKI is no PE file, when f.Section(".linux")
\* is nil (Data() is then called on a nil *pe.Section) and when Data() fails.
extractKernel(uki) ==
    IF ~uki.peOk THEN [kind |-> "panic"]
    ELSE IF uki.linux \in {"missing", "unreadable"} THEN [kind |-> "panic"]
    ELSE [kind |-> "ok"]

\* The measured UEFI_GPT_DATA blob, kept as one item of 228 bytes.
calculateUEFIDiskGUIDHash == measureSha384(<<[t |-> "gpt", v |-> "UEFI_GPT_DATA"]>>)

\* The ASCII bytes of a string literal of the source, kept as one item.
Str(text) == <<[t |-> "str", v |-> text]>>

(***************************************************************************)
(* The event logs of MeasureTdxQemu (the variant taking a configuration).  *)
(***************************************************************************)
\* A plausible slip: two neighbouring entries of the log change places.
rtmr0LogSwapped(configEvents, cfvImageHash) ==
    << configEvents.TdHobHash, cfvImageHash, secureBootHash, pkHash, kekHash,
       dbHash, dbxHash, measureSha384(Raw(<<0, 0, 0, 0>>)),
       configEvents.AcpiRsdpHash, configEvents.AcpiLoaderHash,
       configEvents.AcpiTablesHash, measureSha384(Raw(<<1, 0, 2, 0, 0, 0>>)),
       boot0001Hash, boot0002Hash, boot0000Hash >>

rtmr0Log(configEvents, cfvImageHash) ==
    << configEvents.TdHobHash,
       cfvImageHash,
       secureBootHash,
       pkHash,
       kekHash,
       dbHash,
       dbxHash,
       measureSha384(Raw(<<0, 0, 0, 0>>)),
       configEvents.AcpiLoaderHash,
       configEvents.AcpiRsdpHash,
       configEvents.AcpiTablesHash,
       measureSha384(Raw(<<1, 0, 2, 0, 0, 0>>)),
       boot0001Hash,
       boot0002Hash,
       boot0000Hash >>

\* A plausible slip: the kernel hash is measured before the UKI hash.
rtmr1LogSwapped(ukiAuthHash, kernelAuthHash) ==
    << measureSha384(Str("Calling EFI Application from Boot Option")),
       measureSha384(Raw(<<0, 0, 0, 0>>)),
       calculateUEFIDiskGUIDHash,
       kernelAuthHash,
       ukiAuthHash,
       measureSha384(Str("Exit Boot Services Invocation")),
       measureSha384(Str("Exit Boot Services Returned with Success")) >>

rtmr1Log(ukiAuthHash, kernelAuthHash) ==
    << measureSha384(Str("Calling EFI Application from Boot Option")),
       measureSha384(Raw(<<0, 0, 0, 0>>)),
       calculateUEFIDiskGUIDHash,
       ukiAuthHash,
       kernelAuthHash,
       measureSha384(Str("Exit Boot Services Invocation")),
       measureSha384(Str("Exit Boot Services Returned with Success")) >>

rtmr2Log(cmdline, initrd) ==
    << measureTdxKernelCmdline(cmdline), measureSha384(Raw(initrd)) >>

(***************************************************************************)
(* MeasureTdxQemu(fwData, kernelData, initrdData, memorySize, cpuCount,    *)
(* kernelCmdline, configuration, debug), one action per stage.  ret.kind   *)
(* is "none" while the call runs, then "ok" or "error" (the function       *)
(* returned) or "panic" (the process aborted inside it); ret.isNil tells   *)
(* whether the returned *TdxMeasurements is nil.                           *)
(***************************************************************************)
NoMeasurements == [MRTD |-> <<>>, RTMR0 |-> <<>>, RTMR1 |-> <<>>, RTMR2 |-> <<>>]
NoLocals ==
    [configEvents |-> noConfigEvents, cfvImageHash |-> <<>>, ukiAuthHash |-> <<>>,
     kernelPEData |-> <<>>]
NoRet == [kind |-> "none", isNil |-> TRUE]

RunReturnsError ==
    /\ ret' = [kind |-> "error", isNil |-> TRUE]
    /\ pc' = "done"

RunPanics ==
    /\ ret' = [kind |-> "panic", isNil |-> TRUE]
    /\ pc' = "done"

\* measurements := &TdxMeasurements{}; the lookup in machineConfigurations.
RunLookup ==
    /\ pc = "lookup"
    /\ LET found == lookupConfiguration(configuration)
       IN  IF ~found.ok
           THEN /\ RunReturnsError
                /\ UNCHANGED <<fwPc, locals>>
           ELSE /\ locals' = [locals EXCEPT !.configEvents = found.events]
                /\ pc' = "cfv"
                /\ fwPc' = "parseGuidTable"
                /\ UNCHANGED ret
    /\ UNCHANGED <<runInputs, measurements, nDigests>>
    /\ UNCHANGED <<fw, fwCap, gtLo, gtHi, guidMap, rdPos, descriptor, sections,
                   secRet, cfvRet>>
    /\ UNCHANGED <<logVars, drvVars, auxVars>>

\* GetExpectedCfvSha384 returns; on success the RTMR0 log is built and folded.
RunRtmr0 ==
    /\ pc = "cfv"
    /\ fwPc = "done"
    /\ IF cfvRet.kind = "error"
       THEN RunReturnsError /\ UNCHANGED <<measurements, locals, nDigests>>
       ELSE IF cfvRet.kind = "panic"
       THEN RunPanics /\ UNCHANGED <<measurements, locals, nDigests>>
       ELSE LET cfvImageHash == measureSha384(Raw(cfvRet.bytes))
                entries == rtmr0Log(locals.configEvents, cfvImageHash)
            IN  /\ locals' = [locals EXCEPT !.cfvImageHash = cfvImageHash]
                /\ measurements' = [measurements EXCEPT !.RTMR0 = measureLog(entries)]
                /\ nDigests' = nDigests + 3 + Len(entries)
                /\ pc' = "ukiAuth"
                /\ UNCHANGED ret
    /\ UNCHANGED <<runInputs, fwVars>>
    /\ UNCHANGED <<logVars, drvVars, auxVars>>

\* ukiAuthHash, err := authenticode.Parse(bytes.NewReader(kernelData)).
RunUkiAuth ==
    /\ pc = "ukiAuth"
    /\ IF ~kernelData.authOk
       THEN RunReturnsError /\ UNCHANGED locals
       ELSE /\ locals' = [locals EXCEPT !.ukiAuthHash = authenticodeHash(ukiImage(kernelData))]
            /\ pc' = "extractKernel"
            /\ UNCHANGED ret
    /\ UNCHANGED <<runInputs, measurements, nDigests, fwVars>>
    /\ UNCHANGED <<logVars, drvVars, auxVars>>

\* kernelPEData := extractKernel(kernelData).
RunExtractKernel ==
    /\ pc = "extractKernel"
    /\ IF extractKernel(kernelData).kind = "panic"
       THEN RunPanics /\ UNCHANGED locals
       ELSE /\ locals' = [locals EXCEPT !.kernelPEData = linuxImage(kernelData)]
            /\ pc' = "kernelAuth"
            /\ UNCHANGED ret
    /\ UNCHANGED <<runInputs, measurements, nDigests, fwVars>>
    /\ UNCHANGED <<logVars, drvVars, auxVars>>

\* kernelAuthHash, err := authenticode.Parse(...kernelPEData); on success the
\* RTMR1 log is built and folded.
RunRtmr1 ==
    /\ pc = "kernelAuth"
    /\ IF kernelData.linux # "ok"
       THEN RunReturnsError /\ UNCHANGED <<measurements, nDigests>>
       ELSE LET entries == rtmr1Log(locals.ukiAuthHash,
                                    authenticodeHash(locals.kernelPEData))
            IN  /\ measurements' = [measurements EXCEPT !.RTMR1 = measureLog(entries)]
                /\ nDigests' = nDigests + Len(entries) + Len(entries)
                /\ pc' = "rtmr2"
                /\ UNCHANGED ret
    /\ UNCHANGED <<runInputs, locals, fwVars>>
    /\ UNCHANGED <<logVars, drvVars, auxVars>>

\* The RTMR2 log is built and folded; return measurements, nil.
RunRtmr2 ==
    /\ pc = "rtmr2"
    /\ LET entries == rtmr2Log(kernelCmdline, initrdData)
       IN  /\ measurements' = [measurements EXCEPT !.RTMR2 = measureLog(entries)]
           /\ nDigests' = nDigests + Len(entries) + Len(entries)
    /\ ret' = [kind |-> "ok", isNil |-> FALSE]
    /\ pc' = "done"
    /\ UNCHANGED <<runInputs, locals, fwVars>>
    /\ UNCHANGED <<logVars, drvVars, auxVars>>

(***************************************************************************)
(* The same call chain as functions of the buffers, as a caller that waits *)
(* for the result sees it.                                                 *)
(***************************************************************************)
RECURSIVE guidMapFrom(_, _, _, _)
\* The loop of ParseGuidMap over guidTable = b[lo:hi].
guidMapFrom(b, lo, hi, m) ==
    IF hi - lo = 0 THEN [kind |-> "ok", map |-> m]
    ELSE LET r == guidMapIter(b, lo, hi, m)
         IN  IF r.kind # "ok" THEN [kind |-> r.kind, map |-> <<>>]
             ELSE guidMapFrom(b, lo, r.hi, r.map)

ParseGuidMap(b) ==
    LET t == parseGuidTable(b)
    IN  IF t.kind # "ok" THEN [kind |-> t.kind, map |-> <<>>]
        ELSE guidMapFrom(b, t.lo, t.hi, <<>>)

RECURSIVE readSectionsFrom(_, _, _, _)
\* The loop of GetTdxMetadataSections: n sections, the next one at pos.
readSectionsFrom(b, pos, n, acc) ==
    IF Len(acc) >= n THEN [kind |-> "ok", sections |-> acc]
    ELSE LET sec == readSection(b, pos)
         IN  IF sec.kind # "ok" THEN [kind |-> "error", sections |-> <<>>]
             ELSE readSectionsFrom(b, pos + 32, n, Append(acc, sec))

GetTdxMetadataSections(b, cap) ==
    LET g == ParseGuidMap(b)
    IN  IF g.kind # "ok" THEN [kind |-> g.kind, sections |-> <<>>]
        ELSE LET o == getTdxMetadataOffset(b, cap, g.map)
             IN  IF o.kind # "ok" THEN [kind |-> o.kind, sections |-> <<>>]
                 ELSE IF Len(b) < o.offset THEN [kind |-> "error", sections |-> <<>>]
                 ELSE LET d == readDescriptor(b, Len(b) - o.offset)
                      IN  IF d.kind # "ok" THEN [kind |-> "error", sections |-> <<>>]
                          ELSE readSectionsFrom(b, Len(b) - o.offset + 16,
                                                U32Int(d.NumberOfSections), <<>>)

GetConfigurationFirmwareVolume(b, cap) ==
    LET r == GetTdxMetadataSections(b, cap)
    IN  IF r.kind # "ok" THEN [kind |-> r.kind, bytes |-> <<>>]
        ELSE cfvBytes(b, cap, r.sections)

\* A plausible slip: the configuration's TD HOB digest is measured into
\* RTMR2 as well.
measureRegistersPerShape(events, cfvImage, uki, initrd, cmdline) ==
    [MRTD |-> <<>>,
     RTMR0 |-> measureLog(rtmr0Log(events, measureSha384(Raw(cfvImage)))),
     RTMR1 |-> measureLog(rtmr1Log(authenticodeHash(ukiImage(uki)),
                                   authenticodeHash(linuxImage(uki)))),
     RTMR2 |-> measureLog(rtmr2Log(cmdline, initrd) \o <<events.TdHobHash>>)]

\* The three registers MeasureTdxQemu fills when nothing fails.
measureRegisters(events, cfvImage, uki, initrd, cmdline) ==
    [MRTD |-> <<>>,
     RTMR0 |-> measureLog(rtmr0Log(events, measureSha384(Raw(cfvImage)))),
     RTMR1 |-> measureLog(rtmr1Log(authenticodeHash(ukiImage(uki)),
                                   authenticodeHash(linuxImage(uki)))),
     RTMR2 |-> measureLog(rtmr2Log(cmdline, initrd))]

\* MeasureTdxQemu once the lookup and GetExpectedCfvSha384 have returned
\* found and cfv.
measureWith(found, cfv, uki, initrd, cmdline) ==
    IF ~found.ok THEN [kind |-> "error", m |-> NoMeasurements]
    ELSE IF cfv.kind # "ok" THEN [kind |-> cfv.kind, m |-> NoMeasurements]
    ELSE IF ~uki.authOk THEN [kind |-> "error", m |-> NoMeasurements]
    ELSE IF extractKernel(uki).kind = "panic" THEN [kind |-> "panic", m |-> NoMeasurements]
    ELSE IF uki.linux # "ok" THEN [kind |-> "error", m |-> NoMeasurements]
    ELSE [kind |-> "ok",
          m |-> measureRegisters(found.events, cfv.bytes, uki, initrd, cmdline)]

\* MeasureTdxQemu: kind is "ok", "error" or "panic"; m is the record behind
\* the returned pointer, the zero record when the pointer is nil.
MeasureTdxQemu(fwData, cap, uki, initrd, cmdline, name) ==
    measureWith(lookupConfiguration(name), GetConfigurationFirmwareVolume(fwData, cap),
                uki, initrd, cmdline)

(***************************************************************************)
(* The inputs of the orchestrator in the model.                            *)
(***************************************************************************)
GoodFw(secs) ==
    BuildFw([footerOk |-> TRUE, tableLen |-> "ok", sigOk |-> TRUE, version |-> 1,
             hasMeta |-> TRUE, extra |-> TRUE, secs |-> secs])

RunFirmwares ==
    { GoodFw(<<SecTdHob, SecCfv>>),
      GoodFw(<<SecCfv2, SecCfv>>),
      GoodFw(<<>>),
      GoodFw(<<SecTdHob>>),
      BuildFw([footerOk |-> TRUE, tableLen |-> "big", sigOk |-> TRUE, version |-> 1,
               hasMeta |-> TRUE, extra |-> FALSE, secs |-> <<SecCfv>>]),
      BuildFw([footerOk |-> TRUE, tableLen |-> "ok", sigOk |-> TRUE, version |-> 1,
               hasMeta |-> FALSE, extra |-> TRUE, secs |-> <<SecCfv>>]) }

GoodUki(file) == [file |-> file, authOk |-> TRUE, peOk |-> TRUE, linux |-> "ok"]

RunUkis ==
    {GoodUki(1), GoodUki(2)} \cup
    [file : {1}, authOk : BOOLEAN, peOk : BOOLEAN,
     linux : {"ok", "badPE", "unreadable", "missing"}]

RunConfigurations == {"c3-standard-4", "c3-standard-8", "bogus-shape"}
RunCmdlines == {<<>>, <<97, 98, 99>>, <<99, 195, 169>>}
RunInitrds == {<<>>, <<7>>}
RunMemorySizes == {0, 2048}
RunCpuCounts == {1, 2}

RunIdle ==
    /\ configuration = "" /\ kernelData = GoodUki(1) /\ initrdData = <<>>
    /\ memorySize = 0 /\ cpuCount = 0 /\ kernelCmdline = <<>>
    /\ pc = "idle" /\ measurements = NoMeasurements /\ locals = NoLocals
    /\ nDigests = 0 /\ ret = NoRet

RunInit ==
    /\ configuration \in RunConfigurations
    /\ kernelData \in RunUkis
    /\ initrdData \in RunInitrds
    /\ memorySize \in RunMemorySizes
    /\ cpuCount \in RunCpuCounts
    /\ kernelCmdline \in RunCmdlines
    /\ pc = "lookup" /\ measurements = NoMeasurements /\ locals = NoLocals
    /\ nDigests = 0 /\ ret = NoRet
    /\ fw \in RunFirmwares
    /\ fwCap = Len(fw)
    /\ fwPc = "idle"
    /\ gtLo = 0 /\ gtHi = 0 /\ guidMap = <<>> /\ rdPos = 0
    /\ descriptor = [kind |-> "none"] /\ sections = <<>>
    /\ secRet = NoSecRet /\ cfvRet = NoCfvRet

(***************************************************************************)
(* measureLog as a loop, one action per iteration.                         *)
(***************************************************************************)
LogEntries ==
    { <<>>, Raw(<<1>>), Raw(<<1, 2>>), measureSha384(Raw(<<0, 0, 0, 0>>)) }

LogIdle ==
    /\ log = <<>> /\ logPos = 0 /\ mr = <<>> /\ nHashed = 0
    /\ logPc = "idle" /\ logResult = <<>>

LogInit ==
    /\ log \in SeqsUpTo(LogEntries, MaxLogLen)
    /\ logPos = 0
    /\ mr = mrInit
    /\ nHashed = 0
    /\ logPc = "loop"
    /\ logResult = <<>>

MeasureLogStep ==
    /\ logPc = "loop"
    /\ logPos < Len(log)
    /\ mr' = extendOnce(mr, log[logPos + 1])
    /\ logPos' = logPos + 1
    /\ nHashed' = nHashed + 1
    /\ UNCHANGED <<log, logPc, logResult>>
    /\ UNCHANGED <<fwVars, runVars, drvVars, auxVars>>

MeasureLogReturn ==
    /\ logPc = "loop"
    /\ logPos = Len(log)
    /\ logResult' = mr
    /\ logPc' = "done"
    /\ UNCHANGED <<log, logPos, mr, nHashed>>
    /\ UNCHANGED <<fwVars, runVars, drvVars, auxVars>>

LogNext == MeasureLogStep \/ MeasureLogReturn

(***************************************************************************)
(* The identifiers derived from a measurement record: the methods          *)
(* CalculateMrAggregated and CalculateMrImage of TdxMeasurements and the   *)
(* command's generateWorkloadID.  Strings are sequences of ASCII codes.    *)
(* A hex string of a digest is the item [t |-> "hex", v |-> digest], two   *)
(* characters for each byte of the digest.                                 *)
(***************************************************************************)
\* strings.TrimPrefix(text, "0x")
TrimPrefix0x(text) ==
    IF Len(text) >= 2 /\ text[1] = 48 /\ text[2] = 120
    THEN SubSeq(text, 3, Len(text))
    ELSE text

\* The value of one hex digit, -1 for any other character.
fromHexChar(c) ==
    IF c >= 48 /\ c <= 57 THEN c - 48
    ELSE IF c >= 97 /\ c <= 102 THEN c - 87
    ELSE IF c >= 65 /\ c <= 70 THEN c - 55
    ELSE -1

\* hex.DecodeString: an error for an odd length or a character that is no
\* hex digit, else one byte for each pair of digits.
hexDecodeString(text) ==
    IF Len(text) % 2 # 0 \/ \E i \in 1..Len(text) : fromHexChar(text[i]) < 0
    THEN [ok |-> FALSE, bytes |-> <<>>]
    ELSE [ok |-> TRUE,
          bytes |-> [i \in 1..(Len(text) \div 2) |->
                        16 * fromHexChar(text[2 * i - 1]) + fromHexChar(text[2 * i])]]

\* hex.EncodeToString of a digest.
hexEncodeToString(digest) == <<[t |-> "hex", v |-> digest]>>

sha256Sum(msg) == <<[t |-> "sha256", v |-> msg]>>

CalculateMrAggregated(m, mrKeyProvider) ==
    LET dec == hexDecodeString(TrimPrefix0x(mrKeyProvider))
    IN  IF ~dec.ok THEN [kind |-> "panic", value |-> <<>>]
        ELSE [kind |-> "ok",
              value |-> hexEncodeToString(sha256Sum(
                  m.MRTD \o m.RTMR0 \o m.RTMR1 \o m.RTMR2 \o Raw(dec.bytes)))]

\* A plausible slip: RTMR0 is written into the image digest as well.
CalculateMrImageWithRtmr0(m) ==
    [kind |-> "ok",
     value |-> hexEncodeToString(sha256Sum(m.MRTD \o m.RTMR0 \o m.RTMR1 \o m.RTMR2))]

CalculateMrImage(m) ==
    [kind |-> "ok",
     value |-> hexEncodeToString(sha256Sum(m.MRTD \o m.RTMR1 \o m.RTMR2))]

\* var workloadFooter = make([]byte, 112)
workloadFooter == Raw(Zeros(112))

\* hash.Write of the four registers, then hash.Sum(workloadFooter): Sum
\* appends the digest of what was written to its argument and returns the
\* resulting slice.
generateWorkloadID(mrtd, rtmr0, rtmr1, rtmr2) ==
    [kind |-> "ok",
     value |-> workloadFooter \o
               <<[t |-> "keccak256", v |-> mrtd \o rtmr0 \o rtmr1 \o rtmr2]>>]

NoDrvOut == [kind |-> "none", value |-> <<>>]

DrvCalls == {"CalculateMrAggregated", "CalculateMrImage", "generateWorkloadID"}

\* Register values of the records: empty (MRTD is never assigned by
\* MeasureTdxQemu) or one of two 48-byte digests.
DrvRegisters == {<<>>, measureSha384(Raw(<<1>>)), measureSha384(Raw(<<2>>))}

\* "", "0x", "ab", "0xab", "AB", "0x0xab", "a", "zz", "0xa"
DrvKeyProviders ==
    { <<>>, <<48, 120>>, <<97, 98>>, <<48, 120, 97, 98>>, <<65, 66>>,
      <<48, 120, 48, 120, 97, 98>>, <<97>>, <<122, 122>>, <<48, 120, 97>> }

DrvIdle ==
    /\ drvCall = "" /\ drvM = NoMeasurements /\ drvKp = <<>>
    /\ drvPc = "idle" /\ drvOut = NoDrvOut

DrvInit ==
    /\ drvCall \in DrvCalls
    /\ drvM \in [MRTD : DrvRegisters, RTMR0 : DrvRegisters,
                  RTMR1 : DrvRegisters, RTMR2 : DrvRegisters]
    /\ drvKp \in DrvKeyProviders
    /\ drvPc = "call"
    /\ drvOut = NoDrvOut

DrvCalculateMrAggregated ==
    /\ drvPc = "call"
    /\ drvCall = "CalculateMrAggregated"
    /\ drvOut' = CalculateMrAggregated(drvM, drvKp)
    /\ drvPc' = "done"
    /\ UNCHANGED <<drvCall, drvM, drvKp>>
    /\ UNCHANGED <<logVars, fwVars, runVars, auxVars>>

DrvCalculateMrImage ==
    /\ drvPc = "call"
    /\ drvCall = "CalculateMrImage"
    /\ drvOut' = CalculateMrImage(drvM)
    /\ drvPc' = "done"
    /\ UNCHANGED <<drvCall, drvM, drvKp>>
    /\ UNCHANGED <<logVars, fwVars, runVars, auxVars>>

DrvGenerateWorkloadID ==
    /\ drvPc = "call"
    /\ drvCall = "generateWorkloadID"
    /\ drvOut' = generateWorkloadID(drvM.MRTD, drvM.RTMR0, drvM.RTMR1, drvM.RTMR2)
    /\ drvPc' = "done"
    /\ UNCHANGED <<drvCall, drvM, drvKp>>
    /\ UNCHANGED <<logVars, fwVars, runVars, auxVars>>

DrvNext ==
    \/ DrvCalculateMrAggregated
    \/ DrvCalculateMrImage
    \/ DrvGenerateWorkloadID

(***************************************************************************)
(* computeMrtd.  A section is [memoryAddress, memoryDataSize, dataOffset,  *)
(* attributes].  What is written into the running SHA-384 is kept as the   *)
(* sequence of the buffers written: a 128-byte MEM.PAGE.ADD or MR.EXTEND   *)
(* buffer is [op, gpa], a chunk of the firmware is [op |-> "chunk", lo,    *)
(* hi] for fw[lo:hi].  The digest returned is the digest of that sequence. *)
(***************************************************************************)
attributeMrExtend == 1
attributePageAug == 2
pageSize == 4096
mrExtendGranularity == 256
mrtdVariantTwoPass == 0
mrtdVariantSinglePass == 1

MaxPages == 2

\* s.attributes & bit, for the two attribute bits.
HasAttribute(s, bit) == (s.attributes \div bit) % 2 = 1

numPages(s) == s.memoryDataSize \div pageSize

\* A plausible slip: the page-augment attribute is not looked at.
memPageAddAlways(s, page) ==
    <<[op |-> "MEM.PAGE.ADD", gpa |-> s.memoryAddress + page * pageSize]>>

\* var buf [128]byte; copy(buf[:n], name); PutUint64(buf[16:24], gpa): the
\* bytes that a buffer [op, gpa] stands for.
tdcallName(op) ==
    IF op = "MEM.PAGE.ADD" THEN <<77, 69, 77, 46, 80, 65, 71, 69, 46, 65, 68, 68>>
    ELSE <<77, 82, 46, 69, 88, 84, 69, 78, 68>>

tdcallBuf(f) ==
    [k \in 1..128 |->
        IF k <= Len(tdcallName(f.op)) THEN tdcallName(f.op)[k]
        ELSE IF k >= 17 /\ k <= 24 THEN LE64B(f.gpa)[k - 16]
        ELSE 0]

\* The closure memPageAdd: what it writes into h.
memPageAdd(s, page) ==
    IF ~HasAttribute(s, attributePageAug)
    THEN <<[op |-> "MEM.PAGE.ADD", gpa |-> s.memoryAddress + page * pageSize]>>
    ELSE <<>>

\* Iterations i..15 of the loop of the closure mrExtend: the buffers
\* written, and whether slicing fw aborted the process.
RECURSIVE mrExtendFrom(_, _, _, _)
mrExtendFrom(s, page, fwLen, i) ==
    IF i = pageSize \div mrExtendGranularity THEN [kind |-> "ok", frames |-> <<>>]
    ELSE LET chunkOffset == s.dataOffset + page * pageSize + i * mrExtendGranularity
             buf == [op |-> "MR.EXTEND",
                     gpa |-> s.memoryAddress + page * pageSize + i * mrExtendGranularity]
         IN  IF chunkOffset + mrExtendGranularity > fwLen
             THEN [kind |-> "panic", frames |-> <<buf>>]
             ELSE LET rest == mrExtendFrom(s, page, fwLen, i + 1)
                  IN  [kind |-> rest.kind,
                       frames |-> <<buf, [op |-> "chunk", lo |-> chunkOffset,
                                          hi |-> chunkOffset + mrExtendGranularity]>>
                                  \o rest.frames]

\* A plausible slip: the MR-extend attribute is not looked at.
mrExtendAlways(s, page, fwLen) == mrExtendFrom(s, page, fwLen, 0)

\* The closure mrExtend.
mrExtend(s, page, fwLen) ==
    IF HasAttribute(s, attributeMrExtend) THEN mrExtendFrom(s, page, fwLen, 0)
    ELSE [kind |-> "ok", frames |-> <<>>]

\* The inner loops of computeMrtd from page on: what they write, and
\* whether the process aborted.
RECURSIVE addPassFrom(_, _)
addPassFrom(s, page) ==
    IF page >= numPages(s) THEN <<>>
    ELSE memPageAdd(s, page) \o addPassFrom(s, page + 1)

RECURSIVE extendPassFrom(_, _, _)
extendPassFrom(s, page, fwLen) ==
    IF page >= numPages(s) THEN [kind |-> "ok", frames |-> <<>>]
    ELSE LET r == mrExtend(s, page, fwLen)
         IN  IF r.kind = "panic" THEN r
             ELSE LET rest == extendPassFrom(s, page + 1, fwLen)
                  IN  [kind |-> rest.kind, frames |-> r.frames \o rest.frames]

RECURSIVE singlePassFrom(_, _, _)
singlePassFrom(s, page, fwLen) ==
    IF page >= numPages(s) THEN [kind |-> "ok", frames |-> <<>>]
    ELSE LET r == mrExtend(s, page, fwLen)
         IN  IF r.kind = "panic"
             THEN [kind |-> "panic", frames |-> memPageAdd(s, page) \o r.frames]
             ELSE LET rest == singlePassFrom(s, page + 1, fwLen)
                  IN  [kind |-> rest.kind,
                       frames |-> memPageAdd(s, page) \o r.frames \o rest.frames]

\* The body of the outer loop for one section.
mrtdSection(s, variant, fwLen) ==
    IF variant = mrtdVariantTwoPass
    THEN LET r == extendPassFrom(s, 0, fwLen)
         IN  [kind |-> r.kind, frames |-> addPassFrom(s, 0) \o r.frames]
    ELSE IF variant = mrtdVariantSinglePass
    THEN singlePassFrom(s, 0, fwLen)
    ELSE [kind |-> "panic", frames |-> <<>>]

RECURSIVE mrtdSectionsFrom(_, _, _)
mrtdSectionsFrom(secs, variant, fwLen) ==
    IF secs = <<>> THEN [kind |-> "ok", frames |-> <<>>]
    ELSE LET r == mrtdSection(Head(secs), variant, fwLen)
         IN  IF r.kind = "panic" THEN r
             ELSE LET rest == mrtdSectionsFrom(Tail(secs), variant, fwLen)
                  IN  [kind |-> rest.kind, frames |-> r.frames \o rest.frames]

\* computeMrtd as a function of its inputs.
computeMrtd(secs, variant, fwLen) ==
    LET r == mrtdSectionsFrom(secs, variant, fwLen)
    IN  IF r.kind = "panic" THEN [kind |-> "panic", digest |-> <<>>]
        ELSE [kind |-> "ok", digest |-> <<[t |-> "sha384", v |-> r.frames]>>]

NoMrtdRet == [kind |-> "none", digest |-> <<>>]

MrtdIdle ==
    /\ mtSections = <<>> /\ mtVariant = 0 /\ mtFwLen = 0 /\ mtPc = "idle"
    /\ mtSec = 0 /\ mtPage = 0 /\ mtHashed = <<>> /\ mtRet = NoMrtdRet


MrtdPanics ==
    /\ mtRet' = [kind |-> "panic", digest |-> <<>>]
    /\ mtPc' = "done"

MrtdFrame == UNCHANGED <<mtSections, mtVariant, mtFwLen>>
MrtdOthers ==
    UNCHANGED <<logVars, fwVars, runVars, drvVars, tvVars, hobVars, batchVars, parVars, encVars>>

\* for _, s := range m.sections { numPages := ...; switch variant {
MrtdSectionStart ==
    /\ mtPc = "sections"
    /\ mtSec < Len(mtSections)
    /\ IF mtVariant = mrtdVariantTwoPass
       THEN mtPc' = "addPass" /\ UNCHANGED mtRet
       ELSE IF mtVariant = mrtdVariantSinglePass
       THEN mtPc' = "singlePass" /\ UNCHANGED mtRet
       ELSE MrtdPanics
    /\ mtPage' = 0
    /\ UNCHANGED <<mtSec, mtHashed>>
    /\ MrtdFrame /\ MrtdOthers

\* Two-pass, first loop: memPageAdd(s, page).
MrtdAddPage ==
    /\ mtPc = "addPass"
    /\ mtPage < numPages(mtSections[mtSec + 1])
    /\ mtHashed' = mtHashed \o memPageAdd(mtSections[mtSec + 1], mtPage)
    /\ mtPage' = mtPage + 1
    /\ UNCHANGED <<mtPc, mtSec, mtRet>>
    /\ MrtdFrame /\ MrtdOthers

MrtdAddPassEnd ==
    /\ mtPc = "addPass"
    /\ mtPage >= numPages(mtSections[mtSec + 1])
    /\ mtPc' = "extendPass"
    /\ mtPage' = 0
    /\ UNCHANGED <<mtSec, mtHashed, mtRet>>
    /\ MrtdFrame /\ MrtdOthers

\* Two-pass, second loop: mrExtend(s, page).
MrtdExtendPage ==
    /\ mtPc = "extendPass"
    /\ mtPage < numPages(mtSections[mtSec + 1])
    /\ LET r == mrExtend(mtSections[mtSec + 1], mtPage, mtFwLen)
       IN  /\ mtHashed' = mtHashed \o r.frames
           /\ IF r.kind = "panic" THEN MrtdPanics /\ UNCHANGED mtPage
              ELSE mtPage' = mtPage + 1 /\ UNCHANGED <<mtPc, mtRet>>
    /\ UNCHANGED mtSec
    /\ MrtdFrame /\ MrtdOthers

\* Single-pass: memPageAdd(s, page); mrExtend(s, page).
MrtdSinglePage ==
    /\ mtPc = "singlePass"
    /\ mtPage < numPages(mtSections[mtSec + 1])
    /\ LET r == mrExtend(mtSections[mtSec + 1], mtPage, mtFwLen)
       IN  /\ mtHashed' = mtHashed \o memPageAdd(mtSections[mtSec + 1], mtPage) \o r.frames
           /\ IF r.kind = "panic" THEN MrtdPanics /\ UNCHANGED mtPage
              ELSE mtPage' = mtPage + 1 /\ UNCHANGED <<mtPc, mtRet>>
    /\ UNCHANGED mtSec
    /\ MrtdFrame /\ MrtdOthers

\* The last inner loop of a section ends: on to the next section.
MrtdSectionEnd ==
    /\ mtPc \in {"extendPass", "singlePass"}
    /\ mtPage >= numPages(mtSections[mtSec + 1])
    /\ mtSec' = mtSec + 1
    /\ mtPc' = "sections"
    /\ mtPage' = 0
    /\ UNCHANGED <<mtHashed, mtRet>>
    /\ MrtdFrame /\ MrtdOthers

\* return h.Sum(nil)
MrtdReturn ==
    /\ mtPc = "sections"
    /\ mtSec = Len(mtSections)
    /\ mtRet' = [kind |-> "ok", digest |-> <<[t |-> "sha384", v |-> mtHashed]>>]
    /\ mtPc' = "done"
    /\ UNCHANGED <<mtSec, mtPage, mtHashed>>
    /\ MrtdFrame /\ MrtdOthers

MrtdNext ==
    \/ MrtdSectionStart
    \/ MrtdAddPage
    \/ MrtdAddPassEnd
    \/ MrtdExtendPage
    \/ MrtdSinglePage
    \/ MrtdSectionEnd
    \/ MrtdReturn

\* The sections of the model: the i-th section of a list lies at i MiB, its
\* data at (i - 1) * 256 in the firmware.
MaxMrtdSections == 2
MrtdSectionKinds ==
    [memoryDataSize : {pageSize * k : k \in 0..MaxPages}, attributes : 0..3]

MrtdSection(kind, i) ==
    [memoryAddress |-> 1048576 * i, memoryDataSize |-> kind.memoryDataSize,
     dataOffset |-> mrExtendGranularity * (i - 1), attributes |-> kind.attributes]

MrtdSectionLists ==
    { [i \in 1..Len(ks) |-> MrtdSection(ks[i], i)] :
        ks \in SeqsUpTo(MrtdSectionKinds, MaxMrtdSections) }

\* A firmware that holds every page of the model at every data offset, one
\* that holds them at offset 0 only, and one that ends inside the second page.
MrtdFwLens ==
    {pageSize * MaxPages + mrExtendGranularity, pageSize * MaxPages,
     pageSize + mrExtendGranularity}

MrtdInit ==
    /\ mtSections \in MrtdSectionLists
    /\ mtVariant \in {mrtdVariantTwoPass, mrtdVariantSinglePass, 2}
    /\ mtFwLen \in MrtdFwLens
    /\ mtPc = "sections"
    /\ mtSec = 0 /\ mtPage = 0 /\ mtHashed = <<>> /\ mtRet = NoMrtdRet

(***************************************************************************)
(* parseTdvfMetadata, over the firmware buffer fw with capacity fwCap.     *)
(* The fields of a section are kept as the little-endian bytes read.       *)
(***************************************************************************)
\* a < b for unsigned little-endian byte strings of equal length.
RECURSIVE ULess(_, _)
ULess(a, b) ==
    IF a = <<>> THEN FALSE
    ELSE LET k == Len(a)
         IN  \/ a[k] < b[k]
             \/ a[k] = b[k] /\ ULess(SubSeq(a, 1, k - 1), SubSeq(b, 1, k - 1))

\* x % pageSize for an unsigned little-endian byte string x.
ModPageSize(x) == (x[1] + 256 * x[2]) % pageSize

\* The tdvfSection read from the 32 bytes secData.
tdvfSectionOf(secData) ==
    [dataOffset |-> SubSeq(secData, 1, 4),
     rawDataSize |-> SubSeq(secData, 5, 8),
     memoryAddress |-> SubSeq(secData, 9, 16),
     memoryDataSize |-> SubSeq(secData, 17, 24),
     secType |-> SubSeq(secData, 25, 28),
     attributes |-> SubSeq(secData, 29, 32)]

\* A plausible slip: the alignment of the memory size is not checked.
tdvfSectionRejectedSizeUnchecked(sec) ==
    LET raw64 == sec.rawDataSize \o <<0, 0, 0, 0>>
    IN  \/ ModPageSize(sec.memoryAddress) # 0
        \/ ULess(sec.memoryDataSize, raw64)
        \/ /\ (sec.attributes[1] \div attributeMrExtend) % 2 = 1
           /\ ULess(raw64, sec.memoryDataSize)

\* The sanity checks of a section: TRUE when one of them fails.
tdvfSectionRejected(sec) ==
    LET raw64 == sec.rawDataSize \o <<0, 0, 0, 0>>
    IN  \/ ModPageSize(sec.memoryAddress) # 0
        \/ ULess(sec.memoryDataSize, raw64)
        \/ ModPageSize(sec.memoryDataSize) # 0
        \/ /\ (sec.attributes[1] \div attributeMrExtend) % 2 = 1
           /\ ULess(raw64, sec.memoryDataSize)

NoTdvfRet == [kind |-> "none", sections |-> <<>>]

TdvfIdle ==
    /\ tvPc = "idle" /\ tvTablesLo = 0 /\ tvTablesLen = 0 /\ tvOffset = 0
    /\ tvData = <<>> /\ tvMetaOffset = 0 /\ tvNumber = 0 /\ tvSection = 0
    /\ tvSections = <<>> /\ tvRet = NoTdvfRet


\* return nil, fmt.Errorf(...), or the process aborts on a slice expression.
TdvfEnds(kind) ==
    /\ tvRet' = [kind |-> kind, sections |-> <<>>]
    /\ tvPc' = "done"

TdvfOthers ==
    /\ UNCHANGED <<fw, fwCap, fwPc, gtLo, gtHi, guidMap, rdPos, descriptor, sections,
                   secRet, cfvRet>>
    /\ UNCHANGED <<logVars, runVars, drvVars, mtVars, hobVars, batchVars, parVars, encVars>>

\* The table footer: its GUID and the length of the tables.
TdvfFooter ==
    /\ tvPc = "footer"
    /\ LET offset == Len(fw) - 32
           tablesLen == LE16(fw, offset - 18)
       IN  IF offset - 18 < 0
           THEN TdvfEnds("panic") /\ UNCHANGED <<tvTablesLo, tvTablesLen, tvOffset>>
           ELSE IF Slice(fw, offset - 16, offset) # tableFooterGuidBytes
           THEN TdvfEnds("error") /\ UNCHANGED <<tvTablesLo, tvTablesLen, tvOffset>>
           ELSE IF tablesLen = 0 \/ tablesLen > offset - 18
           THEN TdvfEnds("error") /\ UNCHANGED <<tvTablesLo, tvTablesLen, tvOffset>>
           ELSE /\ tvTablesLo' = offset - 18 - tablesLen
                /\ tvTablesLen' = tablesLen
                /\ tvOffset' = tablesLen
                /\ tvPc' = "tables"
                /\ UNCHANGED tvRet
    /\ UNCHANGED <<tvData, tvMetaOffset, tvNumber, tvSection, tvSections>>
    /\ TdvfOthers

\* One iteration of the search for the TDVF metadata entry, from the end.
TdvfTableEntry ==
    /\ tvPc = "tables"
    /\ IF tvOffset < 18
       THEN TdvfEnds("error") /\ UNCHANGED <<tvOffset, tvData>>
       ELSE LET guid == Slice(fw, tvTablesLo + tvOffset - 16, tvTablesLo + tvOffset)
                entryLen == LE16(fw, tvTablesLo + tvOffset - 18)
            IN  IF tvOffset < 18 + entryLen
                THEN TdvfEnds("error") /\ UNCHANGED <<tvOffset, tvData>>
                ELSE IF guid = tdxMetadataOffsetGuidBytes
                THEN /\ tvData' = <<tvTablesLo + tvOffset - 18 - entryLen,
                                    tvTablesLo + tvOffset - 18>>
                     /\ tvPc' = "descriptor"
                     /\ UNCHANGED <<tvOffset, tvRet>>
                ELSE /\ tvOffset' = tvOffset - entryLen
                     /\ UNCHANGED <<tvPc, tvData, tvRet>>
    /\ UNCHANGED <<tvTablesLo, tvTablesLen, tvMetaOffset, tvNumber, tvSection, tvSections>>
    /\ TdvfOthers

\* The descriptor: its place, signature, version and number of sections.
TdvfDescriptor ==
    /\ tvPc = "descriptor"
    /\ IF tvData[2] - tvData[1] < 4
       THEN TdvfEnds("panic") /\ UNCHANGED <<tvMetaOffset, tvNumber>>
       ELSE LET off == Len(fw) - U32Int(Slice(fw, tvData[2] - 4, tvData[2]))
                desc == BackingSlice(fw, off, off + 16)
            IN  IF off < 0 \/ off + 16 > fwCap
                THEN TdvfEnds("panic") /\ UNCHANGED <<tvMetaOffset, tvNumber>>
                ELSE IF SubSeq(desc, 1, 4) # <<84, 68, 86, 70>>
                THEN TdvfEnds("error") /\ UNCHANGED <<tvMetaOffset, tvNumber>>
                ELSE IF SubSeq(desc, 9, 12) # <<1, 0, 0, 0>>
                THEN TdvfEnds("error") /\ UNCHANGED <<tvMetaOffset, tvNumber>>
                ELSE /\ tvMetaOffset' = off
                     /\ tvNumber' = U32Int(SubSeq(desc, 13, 16))
                     /\ tvPc' = "sections"
                     /\ UNCHANGED tvRet
    /\ UNCHANGED <<tvTablesLo, tvTablesLen, tvOffset, tvData, tvSection, tvSections>>
    /\ TdvfOthers

\* One iteration of the loop over the section entries.
TdvfSection ==
    /\ tvPc = "sections"
    /\ tvSection < tvNumber
    /\ LET secOffset == tvMetaOffset + 16 + 32 * tvSection
           sec == tdvfSectionOf(BackingSlice(fw, secOffset, secOffset + 32))
       IN  IF secOffset + 32 > fwCap
           THEN TdvfEnds("panic") /\ UNCHANGED <<tvSection, tvSections>>
           ELSE IF tdvfSectionRejected(sec)
           THEN TdvfEnds("error") /\ UNCHANGED <<tvSection, tvSections>>
           ELSE /\ tvSections' = Append(tvSections, sec)
                /\ tvSection' = tvSection + 1
                /\ UNCHANGED <<tvPc, tvRet>>
    /\ UNCHANGED <<tvTablesLo, tvTablesLen, tvOffset, tvData, tvMetaOffset, tvNumber>>
    /\ TdvfOthers

\* return &meta, nil
TdvfReturn ==
    /\ tvPc = "sections"
    /\ tvSection >= tvNumber
    /\ tvRet' = [kind |-> "ok", sections |-> tvSections]
    /\ tvPc' = "done"
    /\ UNCHANGED <<tvTablesLo, tvTablesLen, tvOffset, tvData, tvMetaOffset, tvNumber,
                   tvSection, tvSections>>
    /\ TdvfOthers

TdvfNext ==
    \/ TdvfFooter
    \/ TdvfTableEntry
    \/ TdvfDescriptor
    \/ TdvfSection
    \/ TdvfReturn

\* Sections for the checks of parseTdvfMetadata: one that passes with the
\* MR-extend attribute, one with less memory than raw data, one whose
\* memory size is no multiple of the page size.
SecExtendOk == Sec(0, 4096, 12288, 4096, 0, 1)
SecSmallMemory == Sec(0, 8192, 12288, 4096, 0, 0)
SecOddMemory == Sec(0, 0, 12288, 4100, 0, 0)

TdvfSectionKinds ==
    GoodSectionKinds \cup BadSectionKinds \cup {SecExtendOk, SecSmallMemory, SecOddMemory}

TdvfParams ==
    [footerOk : BOOLEAN, tableLen : {"ok", "zero", "big"}, sigOk : BOOLEAN,
     version : {1, 2}, hasMeta : BOOLEAN, extra : BOOLEAN,
     secs : SeqsUpTo(TdvfSectionKinds, MaxSections)]

\* The firmware f with the length field of its last table entry set to 0.
ZeroEntryLen(f) == [f EXCEPT ![Len(f) - 67] = 0, ![Len(f) - 66] = 0]

TdvfFirmwares ==
    {BuildFw(p) : p \in TdvfParams}
    \cup {ZeroEntryLen(BuildFw(p)) : p \in {q \in TdvfParams : q.extra}}

TdvfInit ==
    /\ fw \in TdvfFirmwares
    /\ fwCap = Len(fw)
    /\ fwPc = "idle"
    /\ gtLo = 0 /\ gtHi = 0 /\ guidMap = <<>> /\ rdPos = 0
    /\ descriptor = [kind |-> "none"] /\ sections = <<>>
    /\ secRet = NoSecRet /\ cfvRet = NoCfvRet
    /\ tvPc = "footer" /\ tvTablesLo = 0 /\ tvTablesLen = 0 /\ tvOffset = 0
    /\ tvData = <<>> /\ tvMetaOffset = 0 /\ tvNumber = 0 /\ tvSection = 0
    /\ tvSections = <<>> /\ tvRet = NoTdvfRet

(***************************************************************************)
(* measureTdxQemuTdHob.  uint64 values are 8 little-endian bytes, with     *)
(* subtraction wrapping modulo 2^64 as in Go.                              *)
(***************************************************************************)
\* a - b modulo 256^Len(a), on little-endian bytes, with borrow in.
RECURSIVE USubFrom(_, _, _)
USubFrom(a, b, borrow) ==
    IF a = <<>> THEN <<>>
    ELSE LET d == a[1] - b[1] - borrow
         IN  <<d % 256>> \o USubFrom(Tail(a), Tail(b), IF d < 0 THEN 1 ELSE 0)

U64Sub(a, b) == USubFrom(a, b, 0)

\* 0xB0000000, the memory size at which the memory is split.
memorySplit == <<0, 0, 0, 176, 0, 0, 0, 0>>

\* A plausible slip: the split is taken only above 0xB0000000.
memoryIsSplitAbove(size) == ULess(memorySplit, size)

\* memorySize >= 0xB0000000
memoryIsSplit(size) == ~ULess(size, memorySplit)

\* A plausible slip: the loop does not break, the last TD HOB section wins.
tdHobBaseAddrLast(meta) ==
    IF meta = "nil" THEN 8425472
    ELSE LET idx == {i \in 1..Len(meta) : meta[i].secType = 2}
         IN  IF idx = {} THEN 8425472
             ELSE meta[CHOOSE i \in idx : \A j \in idx : j <= i].memoryAddress

\* Discover the TD HOB base address from TDVF metadata.
tdHobBaseAddr(meta) ==
    IF meta = "nil" THEN 8425472
    ELSE LET idx == {i \in 1..Len(meta) : meta[i].secType = 2}
         IN  IF idx = {} THEN 8425472
             ELSE meta[CHOOSE i \in idx : \A j \in idx : i <= j].memoryAddress

\* EFI_HOB_TYPE_HANDOFF, 56 bytes.
handoffHob ==
    <<1, 0, 56, 0, 0, 0, 0, 0, 9, 0, 0, 0, 0, 0, 0, 0>> \o Zeros(40)

\* What addMemoryResourceHob appends: 48 bytes.
resourceHob(resourceType, start, length) ==
    <<3, 0, 48, 0, 0, 0, 0, 0>> \o Zeros(16)
    \o <<resourceType, 0, 0, 0, 7, 0, 0, 0>> \o start \o length

\* The seven calls with fixed arguments, in order.
fixedResources ==
    << [type |-> 7, start |-> LE64B(0), length |-> LE64B(8388608)],
       [type |-> 0, start |-> LE64B(8388608), length |-> LE64B(24576)],
       [type |-> 7, start |-> LE64B(8413184), length |-> LE64B(12288)],
       [type |-> 0, start |-> LE64B(8425472), length |-> LE64B(8192)],
       [type |-> 0, start |-> LE64B(8433664), length |-> LE64B(8192)],
       [type |-> 7, start |-> LE64B(8441856), length |-> LE64B(16384)],
       [type |-> 0, start |-> LE64B(8458240), length |-> LE64B(61440)] >>

NoHobRet == <<>>

HobIdle ==
    /\ hobMemorySize = Zeros(8) /\ hobMeta = "nil" /\ tdHob = <<>>
    /\ remainingMemory = Zeros(8) /\ hobPc = "idle" /\ hobRecords = 0
    /\ hobRet = NoHobRet

HobOthers ==
    /\ UNCHANGED <<hobMemorySize, hobMeta>>
    /\ UNCHANGED <<logVars, fwVars, runVars, drvVars, mtVars, tvVars, batchVars, parVars, encVars>>

\* addMemoryResourceHob(resourceType, start, length)
addMemoryResourceHob(resourceType, start, length) ==
    /\ tdHob' = tdHob \o resourceHob(resourceType, start, length)
    /\ remainingMemory' = U64Sub(remainingMemory, length)
    /\ hobRecords' = hobRecords + 1

\* tdHob = append(tdHob, <handoff>); remainingMemory := memorySize
HobHandoff ==
    /\ hobPc = "handoff"
    /\ tdHob' = tdHob \o handoffHob
    /\ remainingMemory' = hobMemorySize
    /\ hobPc' = "fixed"
    /\ UNCHANGED <<hobRecords, hobRet>>
    /\ HobOthers

HobFixedResource ==
    /\ hobPc = "fixed"
    /\ hobRecords < Len(fixedResources)
    /\ LET r == fixedResources[hobRecords + 1]
       IN  addMemoryResourceHob(r.type, r.start, r.length)
    /\ UNCHANGED <<hobPc, hobRet>>
    /\ HobOthers

\* memorySize >= 0xB0000000: the record up to the PCI hole.
HobBelowHole ==
    /\ hobPc = "fixed"
    /\ hobRecords = Len(fixedResources)
    /\ memoryIsSplit(hobMemorySize)
    /\ addMemoryResourceHob(7, LE64B(8519680), LE64B(2138963968))
    /\ hobPc' = "above"
    /\ UNCHANGED hobRet
    /\ HobOthers

\* memorySize >= 0xB0000000: the record above 4 GiB.
HobAboveHole ==
    /\ hobPc = "above"
    /\ addMemoryResourceHob(7, <<0, 0, 0, 0, 1, 0, 0, 0>>, remainingMemory)
    /\ hobPc' = "end"
    /\ UNCHANGED hobRet
    /\ HobOthers

\* memorySize < 0xB0000000: one record for the remaining memory.
HobRemaining ==
    /\ hobPc = "fixed"
    /\ hobRecords = Len(fixedResources)
    /\ ~memoryIsSplit(hobMemorySize)
    /\ addMemoryResourceHob(7, LE64B(8519680), remainingMemory)
    /\ hobPc' = "end"
    /\ UNCHANGED hobRet
    /\ HobOthers

\* Update EfiEndOfHobList, measure the TD HOB.
HobMeasure ==
    /\ hobPc = "end"
    /\ LET val == LE64B(tdHobBaseAddr(hobMeta) + Len(tdHob) + 8)
           final == SubSeq(tdHob, 1, 48) \o val \o SubSeq(tdHob, 57, Len(tdHob))
       IN  /\ tdHob' = final
           /\ hobRet' = measureSha384(Raw(final))
    /\ hobPc' = "done"
    /\ UNCHANGED <<remainingMemory, hobRecords>>
    /\ HobOthers

HobNext ==
    \/ HobHandoff
    \/ HobFixedResource
    \/ HobBelowHole
    \/ HobAboveHole
    \/ HobRemaining
    \/ HobMeasure

\* 0, 0x820000, 512 MiB, 2 GiB, 0xAFFFFFFF, 0xB0000000, 0xB0000001, 4 GiB, 16 GiB
HobMemorySizes ==
    { Zeros(8), LE64B(8519680), LE64B(536870912),
      <<0, 0, 0, 128, 0, 0, 0, 0>>, <<255, 255, 255, 175, 0, 0, 0, 0>>,
      <<0, 0, 0, 176, 0, 0, 0, 0>>, <<1, 0, 0, 176, 0, 0, 0, 0>>,
      <<0, 0, 0, 0, 1, 0, 0, 0>>, <<0, 0, 0, 0, 4, 0, 0, 0>> }

HobMetas ==
    { "nil", <<>>,
      <<[secType |-> 1, memoryAddress |-> 4096], [secType |-> 2, memoryAddress |-> 8429568]>>,
      <<[secType |-> 2, memoryAddress |-> 8429568], [secType |-> 2, memoryAddress |-> 8433664]>> }

HobInit ==
    /\ hobMemorySize \in HobMemorySizes
    /\ hobMeta \in HobMetas
    /\ tdHob = <<>> /\ remainingMemory = Zeros(8)
    /\ hobPc = "handoff" /\ hobRecords = 0 /\ hobRet = NoHobRet

FwIdle ==
    /\ fw = <<>> /\ fwCap = 0 /\ fwPc = "idle"
    /\ gtLo = 0 /\ gtHi = 0 /\ guidMap = <<>> /\ rdPos = 0
    /\ descriptor = [kind |-> "none"] /\ sections = <<>>
    /\ secRet = NoSecRet /\ cfvRet = NoCfvRet

FwInit ==
    /\ fw \in {BuildFw(p) : p \in FwParams \cup FwCfvParams}
    /\ fwCap \in {Len(fw), Len(fw) + SpareCap}
    /\ FwCall

(***************************************************************************)
(* The command's main in batch mode: the configurations to process, one    *)
(* call of MeasureTdxQemu for each, one more call for RTMR1 and RTMR2, and *)
(* the output record.  batchPc ends as "done" (the output was printed),    *)
(* "exit" (os.Exit(1)) or "panic".  The flag -config is the variable       *)
(* configuration; the buffers are fw, kernelData, initrdData and           *)
(* kernelCmdline.                                                          *)
(***************************************************************************)
\* The lists that hold every element of S once.
Orders(S) ==
    { order \in [1..Cardinality(S) -> S] :
        \A i, j \in 1..Cardinality(S) : order[i] = order[j] => i = j }

\* internal.GetAllConfigurations(): the names of the table, in some order.
GetAllConfigurations == Orders(DOMAIN machineConfigurations)

\* internal.LatestMRTD, the hex string of a fixed 48-byte digest.
LatestMRTD == hexEncodeToString(Const384(<<"", "LatestMRTD">>))

NoOutput == [RTMR1 |-> <<>>, RTMR2 |-> <<>>, RTMR0 |-> <<>>, MRTD |-> <<>>]

BatchIdle ==
    /\ configurations = <<>> /\ rtmr0s = <<>> /\ mrtds = <<>> /\ measured = <<>>
    /\ batchPc = "idle" /\ output = NoOutput

BatchOthers ==
    /\ UNCHANGED <<fwVars, runVars, logVars, drvVars>>
    /\ UNCHANGED <<mtVars, tvVars, hobVars, parVars, encVars>>

\* Determine which configurations to process; rtmr0s and mrtds.
BatchConfigurations ==
    /\ batchPc = "configurations"
    /\ IF configuration # ""
       THEN configurations' = <<configuration>>
       ELSE configurations' \in GetAllConfigurations
    /\ rtmr0s' = <<>>
    /\ mrtds' = <<LatestMRTD>>
    /\ batchPc' = "loop"
    /\ UNCHANGED <<measured, output>>
    /\ BatchOthers

\* The body of the loop once MeasureTdxQemu has returned r.
BatchCollect(r) ==
    IF r.kind = "ok"
    THEN /\ rtmr0s' = Append(rtmr0s, hexEncodeToString(r.m.RTMR0))
         /\ measured' = Append(measured, r.m)
         /\ UNCHANGED batchPc
    ELSE /\ batchPc' = IF r.kind = "error" THEN "exit" ELSE "panic"
         /\ UNCHANGED <<rtmr0s, measured>>

\* One iteration of the loop over configurations.
BatchMeasure ==
    /\ batchPc = "loop"
    /\ Len(rtmr0s) < Len(configurations)
    /\ BatchCollect(MeasureTdxQemu(fw, fwCap, kernelData, initrdData, kernelCmdline,
                                   configurations[Len(rtmr0s) + 1]))
    /\ UNCHANGED <<configurations, mrtds, output>>
    /\ BatchOthers

\* The output record once the last call of MeasureTdxQemu has returned r;
\* its error is dropped, and a nil result is dereferenced.
BatchReport(r) ==
    IF r.kind # "ok"
    THEN batchPc' = "panic" /\ UNCHANGED output
    ELSE /\ output' = [RTMR1 |-> hexEncodeToString(r.m.RTMR1),
                       RTMR2 |-> hexEncodeToString(r.m.RTMR2),
                       RTMR0 |-> rtmr0s,
                       MRTD |-> mrtds]
         /\ batchPc' = "done"

\* After the loop: the call for configurations[0] and the output record.
BatchOutput ==
    /\ batchPc = "loop"
    /\ Len(rtmr0s) >= Len(configurations)
    /\ IF configurations = <<>>
       THEN batchPc' = "panic" /\ UNCHANGED output
       ELSE BatchReport(MeasureTdxQemu(fw, fwCap, kernelData, initrdData,
                                       kernelCmdline, configurations[1]))
    /\ UNCHANGED <<configurations, rtmr0s, mrtds, measured>>
    /\ BatchOthers

BatchNext ==
    \/ BatchConfigurations
    \/ BatchMeasure
    \/ BatchOutput

BatchFlags == {""} \cup RunConfigurations

BatchInit ==
    /\ configuration \in BatchFlags
    /\ kernelData \in RunUkis
    /\ initrdData \in RunInitrds
    /\ memorySize \in RunMemorySizes
    /\ cpuCount = 1
    /\ kernelCmdline \in RunCmdlines
    /\ pc = "idle" /\ measurements = NoMeasurements /\ locals = NoLocals
    /\ nDigests = 0 /\ ret = NoRet
    /\ fw \in RunFirmwares
    /\ fwCap = Len(fw)
    /\ fwPc = "idle"
    /\ gtLo = 0 /\ gtHi = 0 /\ guidMap = <<>> /\ rdPos = 0
    /\ descriptor = [kind |-> "none"] /\ sections = <<>>
    /\ secRet = NoSecRet /\ cfvRet = NoCfvRet
    /\ configurations = <<>> /\ rtmr0s = <<>> /\ mrtds = <<>> /\ measured = <<>>
    /\ batchPc = "configurations" /\ output = NoOutput

(***************************************************************************)
(* Runs side by side: each run is one call of MeasureTdxQemu followed by   *)
(* one call of generateWorkloadID on its result, for its own               *)
(* configuration.  The runs read the same buffers fw, kernelData,          *)
(* initrdData and kernelCmdline, the same configuration table and the same *)
(* workloadFooter; each writes its own entry of parOut.  Their steps       *)
(* interleave in every order.  A panic aborts the process: no run takes a  *)
(* step after it.                                                          *)
(***************************************************************************)
Runs == {1, 2}

\* make([]byte, 112): length and capacity of workloadFooter.
workloadFooterCap == 112

\* A plausible slip: the appended bytes always land in the backing array.
sliceAppendInPlace(mem, len, cap, data) ==
    [mem |-> SubSeq(mem, 1, len) \o data, slice |-> SubSeq(mem, 1, len) \o data]

\* append(b, data...) for a slice b of length len and capacity cap over the
\* backing array mem: in place when the capacity suffices, else into a new
\* array.
sliceAppend(mem, len, cap, data) ==
    IF len + ByteLen(data) <= cap
    THEN [mem |-> SubSeq(mem, 1, len) \o data, slice |-> SubSeq(mem, 1, len) \o data]
    ELSE [mem |-> mem, slice |-> SubSeq(mem, 1, len) \o data]

NoParOut ==
    [kind |-> "none", events |-> noConfigEvents, m |-> NoMeasurements, id |-> <<>>]

ParIdle ==
    /\ parConfig = [r \in Runs |-> ""]
    /\ parPc = [r \in Runs |-> "idle"]
    /\ parOut = [r \in Runs |-> NoParOut]
    /\ footerMem = workloadFooter

ParOthers ==
    /\ UNCHANGED <<fwVars, runVars, logVars, drvVars>>
    /\ UNCHANGED <<mtVars, tvVars, hobVars, batchVars, encVars>>

ParRunning == \A q \in Runs : parOut[q].kind # "panic"

ParEnds(r, kind) ==
    /\ parOut' = [parOut EXCEPT ![r].kind = kind]
    /\ parPc' = [parPc EXCEPT ![r] = "done"]

\* measurements := &TdxMeasurements{}; the lookup in machineConfigurations.
ParLookup(r) ==
    /\ parPc[r] = "lookup" /\ ParRunning
    /\ LET found == lookupConfiguration(parConfig[r])
       IN  IF ~found.ok THEN ParEnds(r, "error")
           ELSE /\ parOut' = [parOut EXCEPT ![r].events = found.events]
                /\ parPc' = [parPc EXCEPT ![r] = "cfv"]
    /\ UNCHANGED <<parConfig, footerMem>>
    /\ ParOthers

\* GetExpectedCfvSha384 and RTMR0.
ParRtmr0(r) ==
    /\ parPc[r] = "cfv" /\ ParRunning
    /\ LET cfv == GetConfigurationFirmwareVolume(fw, fwCap)
       IN  IF cfv.kind # "ok" THEN ParEnds(r, cfv.kind)
           ELSE /\ parOut' = [parOut EXCEPT ![r].m.RTMR0 =
                                 measureLog(rtmr0Log(parOut[r].events,
                                                     measureSha384(Raw(cfv.bytes))))]
                /\ parPc' = [parPc EXCEPT ![r] = "ukiAuth"]
    /\ UNCHANGED <<parConfig, footerMem>>
    /\ ParOthers

\* The Authenticode digests of the UKI and of its kernel, and RTMR1.
ParRtmr1(r) ==
    /\ parPc[r] = "ukiAuth" /\ ParRunning
    /\ IF ~kernelData.authOk THEN ParEnds(r, "error")
       ELSE IF extractKernel(kernelData).kind = "panic" THEN ParEnds(r, "panic")
       ELSE IF kernelData.linux # "ok" THEN ParEnds(r, "error")
       ELSE /\ parOut' = [parOut EXCEPT ![r].m.RTMR1 =
                             measureLog(rtmr1Log(authenticodeHash(ukiImage(kernelData)),
                                                 authenticodeHash(linuxImage(kernelData))))]
            /\ parPc' = [parPc EXCEPT ![r] = "rtmr2"]
    /\ UNCHANGED <<parConfig, footerMem>>
    /\ ParOthers

\* RTMR2; return measurements, nil.
ParRtmr2(r) ==
    /\ parPc[r] = "rtmr2" /\ ParRunning
    /\ parOut' = [parOut EXCEPT ![r].m.RTMR2 =
                     measureLog(rtmr2Log(kernelCmdline, initrdData)),
                                ![r].kind = "ok"]
    /\ parPc' = [parPc EXCEPT ![r] = "workloadID"]
    /\ UNCHANGED <<parConfig, footerMem>>
    /\ ParOthers

\* generateWorkloadID on the run's registers: hash.Sum(workloadFooter).
ParWorkloadID(r) ==
    /\ parPc[r] = "workloadID" /\ ParRunning
    /\ LET m == parOut[r].m
           sum == sliceAppend(footerMem, Len(workloadFooter), workloadFooterCap,
                              <<[t |-> "keccak256",
                                 v |-> m.MRTD \o m.RTMR0 \o m.RTMR1 \o m.RTMR2]>>)
       IN  /\ footerMem' = sum.mem
           /\ parOut' = [parOut EXCEPT ![r].id = sum.slice]
    /\ parPc' = [parPc EXCEPT ![r] = "done"]
    /\ UNCHANGED parConfig
    /\ ParOthers

ParNext ==
    \/ \E r \in Runs : ParLookup(r)
    \/ \E r \in Runs : ParRtmr0(r)
    \/ \E r \in Runs : ParRtmr1(r)
    \/ \E r \in Runs : ParRtmr2(r)
    \/ \E r \in Runs : ParWorkloadID(r)

ParUkis ==
    { GoodUki(1),
      [file |-> 1, authOk |-> FALSE, peOk |-> TRUE, linux |-> "ok"],
      [file |-> 1, authOk |-> TRUE, peOk |-> TRUE, linux |-> "missing"],
      [file |-> 1, authOk |-> TRUE, peOk |-> TRUE, linux |-> "badPE"] }

ParInit ==
    /\ configuration = ""
    /\ kernelData \in ParUkis
    /\ initrdData \in RunInitrds
    /\ memorySize = 0
    /\ cpuCount = 1
    /\ kernelCmdline \in {<<>>, <<97, 98, 99>>}
    /\ pc = "idle" /\ measurements = NoMeasurements /\ locals = NoLocals
    /\ nDigests = 0 /\ ret = NoRet
    /\ fw \in RunFirmwares
    /\ fwCap = Len(fw)
    /\ fwPc = "idle"
    /\ gtLo = 0 /\ gtHi = 0 /\ guidMap = <<>> /\ rdPos = 0
    /\ descriptor = [kind |-> "none"] /\ sections = <<>>
    /\ secRet = NoSecRet /\ cfvRet = NoCfvRet
    /\ parConfig \in [Runs -> RunConfigurations]
    /\ parPc = [r \in Runs |-> "lookup"]
    /\ parOut = [r \in Runs |-> NoParOut]
    /\ footerMem = workloadFooter

(***************************************************************************)
(* encodeGUID and its caller calculateUEFIDiskGUIDHash.  A GUID string is  *)
(* a sequence of ASCII codes.  crc32.ChecksumIEEE of a byte string is the  *)
(* 4-byte item [t |-> "crc32", v |-> the bytes].                           *)
(***************************************************************************)
Reverse(bs) == [i \in 1..Len(bs) |-> bs[Len(bs) + 1 - i]]

RECURSIVE splitHyphens(_)
\* strings.Split(text, "-")
splitHyphens(text) ==
    LET at == {i \in 1..Len(text) : text[i] = 45}
    IN  IF at = {} THEN <<text>>
        ELSE LET i == CHOOSE i \in at : \A j \in at : i <= j
             IN  <<SubSeq(text, 1, i - 1)>> \o splitHyphens(SubSeq(text, i + 1, Len(text)))

\* A plausible slip: only the first two groups are little-endian.
littleEndianAtomFirstTwo(atomIdx) == atomIdx <= 1

\* if idx <= 2
littleEndianAtom(atomIdx) == atomIdx <= 2

\* One iteration of the loop of encodeGUID: the bytes appended for atom
\* number atomIdx (from 0), or the panic.
encodeAtom(atom, atomIdx) ==
    LET dec == hexDecodeString(atom)
    IN  IF ~dec.ok THEN [kind |-> "panic", bytes |-> <<>>]
        ELSE [kind |-> "ok",
              bytes |-> IF littleEndianAtom(atomIdx) THEN Reverse(dec.bytes)
                        ELSE dec.bytes]

RECURSIVE encodeAtomsFrom(_, _, _)
encodeAtomsFrom(atoms, atomIdx, acc) ==
    IF atomIdx >= Len(atoms) THEN [kind |-> "ok", bytes |-> acc]
    ELSE LET r == encodeAtom(atoms[atomIdx + 1], atomIdx)
         IN  IF r.kind # "ok" THEN r
             ELSE encodeAtomsFrom(atoms, atomIdx + 1, acc \o r.bytes)

encodeGUID(text) == encodeAtomsFrom(splitHyphens(text), 0, <<>>)

NoGuidRet == [kind |-> "none", bytes |-> <<>>]

EncOthers ==
    /\ UNCHANGED <<logVars, fwVars, runVars, drvVars>>
    /\ UNCHANGED <<mtVars, tvVars, hobVars, batchVars, parVars>>

GuidFrame == UNCHANGED <<egGuid, gptHeader, gptPartition, gptBuf, gptPc, gptRet>>

\* var data []byte; atoms := strings.Split(guid, "-")
EncodeSplit ==
    /\ egPc = "split"
    /\ egAtoms' = splitHyphens(egGuid)
    /\ egData' = <<>>
    /\ egIdx' = 0
    /\ egPc' = "loop"
    /\ UNCHANGED egRet
    /\ GuidFrame /\ EncOthers

\* One iteration of the loop over atoms.
EncodeAtom ==
    /\ egPc = "loop"
    /\ egIdx < Len(egAtoms)
    /\ LET r == encodeAtom(egAtoms[egIdx + 1], egIdx)
       IN  IF r.kind # "ok"
           THEN /\ egRet' = [kind |-> "panic", bytes |-> <<>>]
                /\ egPc' = "done"
                /\ UNCHANGED <<egData, egIdx>>
           ELSE /\ egData' = egData \o r.bytes
                /\ egIdx' = egIdx + 1
                /\ UNCHANGED <<egPc, egRet>>
    /\ UNCHANGED egAtoms
    /\ GuidFrame /\ EncOthers

\* return data
EncodeReturn ==
    /\ egPc = "loop"
    /\ egIdx >= Len(egAtoms)
    /\ egRet' = [kind |-> "ok", bytes |-> egData]
    /\ egPc' = "done"
    /\ UNCHANGED <<egAtoms, egIdx, egData>>
    /\ GuidFrame /\ EncOthers

diskSizeSectors == 2097152
gptHeaderLBA == 1
partitionEntryLBA == 2
espStartingLBA == 2048
espEndingLBA == 1026047

\* "ESP"
partitionName == <<69, 83, 80>>

\* The character of a hex digit value, Hyphen for '-'.
digitChar(d, upper) ==
    IF d = Hyphen THEN 45
    ELSE IF d < 10 THEN 48 + d
    ELSE IF upper THEN 55 + d ELSE 87 + d

GuidText(digits, upper) == [i \in 1..Len(digits) |-> digitChar(digits[i], upper)]

\* "12345678-1234-5678-1234-567812345678"
diskGUID ==
    GuidText(<<1, 2, 3, 4, 5, 6, 7, 8, Hyphen, 1, 2, 3, 4, Hyphen, 5, 6, 7, 8, Hyphen,
               1, 2, 3, 4, Hyphen, 5, 6, 7, 8, 1, 2, 3, 4, 5, 6, 7, 8>>, FALSE)

\* "87654321-4321-8765-4321-876543218765"
espPartitionGUID ==
    GuidText(<<8, 7, 6, 5, 4, 3, 2, 1, Hyphen, 4, 3, 2, 1, Hyphen, 8, 7, 6, 5, Hyphen,
               4, 3, 2, 1, Hyphen, 8, 7, 6, 5, 4, 3, 2, 1, 8, 7, 6, 5>>, FALSE)

\* "C12A7328-F81F-11D2-BA4B-00A0C93EC93B", the EFI System Partition type.
efiSystemPartitionGUID ==
    GuidText(<<12, 1, 2, 10, 7, 3, 2, 8, Hyphen, 15, 8, 1, 15, Hyphen, 1, 1, 13, 2,
               Hyphen, 11, 10, 4, 11, Hyphen, 0, 0, 10, 0, 12, 9, 3, 14, 12, 9, 3, 11>>,
             TRUE)

crc32ChecksumIEEE(msg) == <<[t |-> "crc32", v |-> msg]>>

\* copy(dst[:], src) into an array of bytes.
copyInto(dst, src) == [i \in 1..Len(dst) |-> IF i <= Len(src) THEN src[i] ELSE dst[i]]

\* binary.Write(..., binary.LittleEndian, header): 92 bytes.
headerBytes(h) ==
    h.Signature \o h.Revision \o h.HeaderSize \o h.HeaderCRC32 \o h.Reserved
    \o h.MyLBA \o h.AlternateLBA \o h.FirstUsableLBA \o h.LastUsableLBA
    \o h.DiskGUID \o h.PartitionEntryLBA \o h.NumberOfPartitionEntries
    \o h.SizeOfPartitionEntry \o h.PartitionEntryArrayCRC32

\* binary.Write(..., binary.LittleEndian, partition): 128 bytes.
partitionBytes(e) ==
    e.PartitionTypeGUID \o e.UniquePartitionGUID \o e.StartingLBA \o e.EndingLBA
    \o e.Attributes \o e.PartitionName

\* A plausible slip: the checksum covers the one entry only.
partitionArrayOneEntry(entry) == entry

\* partitionArray := make([]byte, 128*128); copy(partitionArray, entry)
partitionArray(entry) == copyInto(Raw(Zeros(128 * 128)), entry)

NoGptHeader == [kind |-> "none"]

EncIdle ==
    /\ egGuid = <<>> /\ egAtoms = <<>> /\ egIdx = 0 /\ egData = <<>>
    /\ egPc = "idle" /\ egRet = NoGuidRet
    /\ gptHeader = NoGptHeader /\ gptPartition = NoGptHeader /\ gptBuf = <<>>
    /\ gptPc = "idle" /\ gptRet = <<>>

GptFrame == UNCHANGED <<egGuid, egAtoms, egIdx, egData, egPc, egRet>>

\* The GPT header at LBA 1 and its disk GUID.
GptHeader ==
    /\ gptPc = "header"
    /\ gptHeader' =
         [Signature |-> Raw(<<69, 70, 73, 32, 80, 65, 82, 84>>),
          Revision |-> Raw(LE32B(65536)),
          HeaderSize |-> Raw(LE32B(92)),
          HeaderCRC32 |-> Raw(Zeros(4)),
          Reserved |-> Raw(LE32B(0)),
          MyLBA |-> Raw(LE64B(gptHeaderLBA)),
          AlternateLBA |-> Raw(LE64B(diskSizeSectors - 1)),
          FirstUsableLBA |-> Raw(LE64B(34)),
          LastUsableLBA |-> Raw(LE64B(diskSizeSectors - 34)),
          DiskGUID |-> Raw(copyInto(Zeros(16), encodeGUID(diskGUID).bytes)),
          PartitionEntryLBA |-> Raw(LE64B(partitionEntryLBA)),
          NumberOfPartitionEntries |-> Raw(LE32B(128)),
          SizeOfPartitionEntry |-> Raw(LE32B(128)),
          PartitionEntryArrayCRC32 |-> Raw(Zeros(4))]
    /\ gptPc' = "partition"
    /\ UNCHANGED <<gptPartition, gptBuf, gptRet>>
    /\ GptFrame /\ EncOthers

\* The ESP partition entry, its GUIDs and its name in UTF-16LE.
GptPartition ==
    /\ gptPc = "partition"
    /\ gptPartition' =
         [PartitionTypeGUID |->
              Raw(copyInto(Zeros(16), encodeGUID(efiSystemPartitionGUID).bytes)),
          UniquePartitionGUID |->
              Raw(copyInto(Zeros(16), encodeGUID(espPartitionGUID).bytes)),
          StartingLBA |-> Raw(LE64B(espStartingLBA)),
          EndingLBA |-> Raw(LE64B(espEndingLBA)),
          Attributes |-> Raw(LE64B(1)),
          PartitionName |-> Raw(copyInto(Zeros(72), utf16le(partitionName)))]
    /\ gptPc' = "arrayCrc"
    /\ UNCHANGED <<gptHeader, gptBuf, gptRet>>
    /\ GptFrame /\ EncOthers

\* header.PartitionEntryArrayCRC32 = crc32.ChecksumIEEE(partitionArray)
GptArrayCrc ==
    /\ gptPc = "arrayCrc"
    /\ gptHeader' = [gptHeader EXCEPT !.PartitionEntryArrayCRC32 =
                        crc32ChecksumIEEE(partitionArray(partitionBytes(gptPartition)))]
    /\ gptPc' = "headerCrc"
    /\ UNCHANGED <<gptPartition, gptBuf, gptRet>>
    /\ GptFrame /\ EncOthers

\* header.HeaderCRC32 = crc32.ChecksumIEEE(headerBytes[:92])
GptHeaderCrc ==
    /\ gptPc = "headerCrc"
    /\ gptHeader' = [gptHeader EXCEPT !.HeaderCRC32 =
                        crc32ChecksumIEEE(headerBytes(gptHeader))]
    /\ gptPc' = "measure"
    /\ UNCHANGED <<gptPartition, gptBuf, gptRet>>
    /\ GptFrame /\ EncOthers

\* The UEFI_GPT_DATA structure and its SHA-384.
GptMeasure ==
    /\ gptPc = "measure"
    /\ gptBuf' = headerBytes(gptHeader) \o Raw(LE64B(1)) \o partitionBytes(gptPartition)
    /\ gptRet' = measureSha384(gptBuf')
    /\ gptPc' = "done"
    /\ UNCHANGED <<gptHeader, gptPartition>>
    /\ GptFrame /\ EncOthers

EncNext ==
    \/ EncodeSplit
    \/ EncodeAtom
    \/ EncodeReturn
    \/ GptHeader
    \/ GptPartition
    \/ GptArrayCrc
    \/ GptHeaderCrc
    \/ GptMeasure

\* The GUID strings encodeGUID is called with in the model: every choice of
\* five groups, the strings of the source, and strings of other shapes.
GuidGroups ==
    << { <<49, 50, 51, 52, 53, 54, 55, 56>>, <<67, 49, 50, 65, 55, 51, 50, 56>>,
         <<49, 50, 51, 52, 53, 54, 55, 103>>, <<49, 50, 51, 52, 53, 54, 55>> },
       { <<49, 50, 51, 52>>, <<102, 56, 49, 102>> },
       { <<53, 54, 55, 56>>, <<53, 54, 103, 56>> },
       { <<49, 50, 51, 52>>, <<98, 97, 52, 98>> },
       { <<53, 54, 55, 56, 49, 50, 51, 52, 53, 54, 55, 56>>,
         <<53, 54, 55, 56, 49, 50, 51, 52, 53, 54, 55>> } >>

EncGuids ==
    { a \o <<45>> \o b \o <<45>> \o c \o <<45>> \o d \o <<45>> \o e :
        a \in GuidGroups[1], b \in GuidGroups[2], c \in GuidGroups[3],
        d \in GuidGroups[4], e \in GuidGroups[5] }
    \cup {diskGUID, espPartitionGUID, efiSystemPartitionGUID}
    \cup {<<>>, <<49, 50, 51, 52>>, <<49, 50, 45, 51>>}

\* Either encodeGUID is called with one of the strings, or
\* calculateUEFIDiskGUIDHash is called.
EncInit ==
    /\ egGuid \in EncGuids
    /\ egAtoms = <<>> /\ egIdx = 0 /\ egData = <<>> /\ egRet = NoGuidRet
    /\ gptHeader = NoGptHeader /\ gptPartition = NoGptHeader /\ gptBuf = <<>>
    /\ gptRet = <<>>
    /\ egPc \in {"split", "idle"}
    /\ gptPc = IF egPc = "split" THEN "idle" ELSE "header"
    /\ egPc = "idle" => egGuid = <<>>

AuxIdle == MrtdIdle /\ TdvfIdle /\ HobIdle /\ BatchIdle /\ ParIdle /\ EncIdle

vars == <<logVars, fwVars, runVars, drvVars, auxVars>>

\* measureLog alone, over every log of the bounds.
InitLog == LogInit /\ FwIdle /\ RunIdle /\ DrvIdle /\ AuxIdle

SpecLog == InitLog /\ [][LogNext]_vars

\* The firmware parser alone, over every firmware image of the bounds.
InitFw == FwInit /\ LogIdle /\ RunIdle /\ DrvIdle /\ AuxIdle

SpecFw == InitFw /\ [][FwNext]_vars

\* One call of MeasureTdxQemu, over every combination of the inputs.
Next ==
    \/ RunLookup
    \/ RunRtmr0
    \/ RunUkiAuth
    \/ RunExtractKernel
    \/ RunRtmr1
    \/ RunRtmr2
    \/ FwParseGuidTable
    \/ FwGuidMapIter
    \/ FwReadDescriptor
    \/ FwReadSection
    \/ FwSectionsReturn
    \/ FwCfvReturn

Init == RunInit /\ LogIdle /\ DrvIdle /\ AuxIdle

\* One derivation on one measurement record.
InitDerive == DrvInit /\ LogIdle /\ FwIdle /\ RunIdle /\ AuxIdle

SpecDerive == InitDerive /\ [][DrvNext]_vars

\* One call of computeMrtd.
InitMrtd ==
    /\ MrtdInit /\ LogIdle /\ FwIdle /\ RunIdle /\ DrvIdle /\ TdvfIdle /\ HobIdle
    /\ BatchIdle /\ ParIdle /\ EncIdle

SpecMrtd == InitMrtd /\ [][MrtdNext]_vars

\* One call of parseTdvfMetadata.
InitTdvf ==
    /\ TdvfInit /\ LogIdle /\ RunIdle /\ DrvIdle /\ MrtdIdle /\ HobIdle
    /\ BatchIdle /\ ParIdle /\ EncIdle

SpecTdvf == InitTdvf /\ [][TdvfNext]_vars

\* One call of measureTdxQemuTdHob.
InitHob ==
    /\ HobInit /\ LogIdle /\ FwIdle /\ RunIdle /\ DrvIdle /\ MrtdIdle /\ TdvfIdle
    /\ BatchIdle /\ ParIdle /\ EncIdle

SpecHob == InitHob /\ [][HobNext]_vars

\* One run of main in batch mode.
InitBatch ==
    /\ BatchInit /\ LogIdle /\ DrvIdle /\ MrtdIdle /\ TdvfIdle /\ HobIdle /\ ParIdle
    /\ EncIdle

SpecBatch == InitBatch /\ [][BatchNext]_vars

\* Two runs side by side.
InitPar ==
    /\ ParInit /\ LogIdle /\ DrvIdle /\ MrtdIdle /\ TdvfIdle /\ HobIdle /\ BatchIdle
    /\ EncIdle

SpecPar == InitPar /\ [][ParNext]_vars

\* One call of encodeGUID and one call of calculateUEFIDiskGUIDHash.
InitEnc ==
    /\ EncInit /\ LogIdle /\ FwIdle /\ RunIdle /\ DrvIdle
    /\ MrtdIdle /\ TdvfIdle /\ HobIdle /\ BatchIdle /\ ParIdle

SpecEnc == InitEnc /\ [][EncNext]_vars

Spec == Init /\ [][Next]_vars

\* The functions agree with the machines they summarise.
CfvFunctionAgrees ==
    fwPc = "done" => cfvRet = GetConfigurationFirmwareVolume(fw, fwCap)

MeasureFunctionAgrees ==
    pc = "done" =>
        /\ ret.kind = MeasureTdxQemu(fw, fwCap, kernelData, initrdData, kernelCmdline,
                                     configuration).kind
        /\ ret.kind = "ok" =>
              measurements = MeasureTdxQemu(fw, fwCap, kernelData, initrdData,
                                            kernelCmdline, configuration).m

(***************************************************************************)
(* C1: for every log, measureLog returns the left fold mr_0 = 48 zero      *)
(* bytes, mr_(i+1) = SHA-384(mr_i || log[i]) over the entries in log       *)
(* order, and for the empty log it returns 48 zero bytes without hashing.  *)
(***************************************************************************)
RECURSIVE MrAt(_, _)
MrAt(l, i) ==
    IF i = 0 THEN [k \in 1..48 |-> [t |-> "b", v |-> 0]]
    ELSE <<[t |-> "sha384", v |-> MrAt(l, i - 1) \o l[i]]>>

C1_MeasureLogIsLeftFold ==
    logPc = "done" =>
        /\ logResult = MrAt(log, Len(log))
        /\ logResult = measureLog(log)
        /\ ByteLen(logResult) = 48
        /\ nHashed = Len(log)
        /\ (log = <<>> => nHashed = 0 /\ logResult = [k \in 1..48 |-> [t |-> "b", v |-> 0]])

C1_Witness ==
    /\ logPc = "done"
    /\ Len(log) = 3
    /\ log[1] # log[2]
    /\ logResult = MrAt(log, 3)

(***************************************************************************)
(* C2: MeasureTdxQemu called with a configuration name that is no key of   *)
(* the configuration table returns an error and a nil record, with no      *)
(* register set, before the firmware is parsed and before any digest is    *)
(* computed, whatever the other inputs are.                                *)
(***************************************************************************)
C2_UnknownConfigurationRejected ==
    (configuration \notin {"c3-standard-4", "c3-standard-8"} /\ pc # "lookup") =>
        /\ pc = "done"
        /\ ret = [kind |-> "error", isNil |-> TRUE]
        /\ measurements = NoMeasurements
        /\ fwPc = "idle" /\ secRet.kind = "none" /\ cfvRet.kind = "none"
        /\ nDigests = 0

C2_Witness ==
    /\ pc = "done"
    /\ configuration = "bogus-shape"
    /\ ret.kind = "error"
    /\ fw = GoodFw(<<SecTdHob, SecCfv>>)
    /\ kernelData = GoodUki(2)

(***************************************************************************)
(* C3: on every successful run RTMR0 is the extend of exactly 15 entries:  *)
(* TD-HOB hash, CFV hash of the firmware, the SecureBoot, PK, KEK, db and  *)
(* dbx variable hashes, SHA-384 of four zero bytes, the ACPI loader, RSDP  *)
(* and tables hashes, the boot-order digest, then the Boot0001, Boot0002   *)
(* and Boot0000 hashes, in this order for every configuration.             *)
(***************************************************************************)
Sha384Of(msg) == <<[t |-> "sha384", v |-> msg]>>
Bytes(bs) == [i \in 1..Len(bs) |-> [t |-> "b", v |-> bs[i]]]

C3_ExpectedLog ==
    << Const384(<<configuration, "TdHobHash">>),
       Sha384Of(Bytes(cfvRet.bytes)),
       Const384(<<"", "secureBootHash">>),
       Const384(<<"", "pkHash">>),
       Const384(<<"", "kekHash">>),
       Const384(<<"", "dbHash">>),
       Const384(<<"", "dbxHash">>),
       Sha384Of(Bytes(<<0, 0, 0, 0>>)),
       Const384(<<configuration, "AcpiLoaderHash">>),
       Const384(<<configuration, "AcpiRsdpHash">>),
       Const384(<<configuration, "AcpiTablesHash">>),
       Sha384Of(Bytes(<<1, 0, 2, 0, 0, 0>>)),
       Const384(<<"", "boot0001Hash">>),
       Const384(<<"", "boot0002Hash">>),
       Const384(<<"", "boot0000Hash">>) >>

C3_Rtmr0IsFifteenEntries ==
    ret.kind = "ok" =>
        /\ Len(C3_ExpectedLog) = 15
        /\ measurements.RTMR0 = MrAt(C3_ExpectedLog, 15)

C3_Witness ==
    /\ ret.kind = "ok"
    /\ configuration = "c3-standard-8"
    /\ fw = GoodFw(<<SecTdHob, SecCfv>>)
    /\ cfvRet.bytes = <<170, 187, 204, 221>>
    /\ measurements.RTMR0 = MrAt(C3_ExpectedLog, 15)

(***************************************************************************)
(* C4: on every successful run RTMR1 is the extend of exactly 7 entries:   *)
(* SHA-384 of "Calling EFI Application from Boot Option", SHA-384 of four  *)
(* zero bytes, the GPT disk hash, the Authenticode SHA-384 of the whole    *)
(* UKI, that of the UKI's .linux section, SHA-384 of "Exit Boot Services   *)
(* Invocation", SHA-384 of "Exit Boot Services Returned with Success".     *)
(***************************************************************************)
C4_ExpectedLog ==
    << Sha384Of(<<[t |-> "str", v |-> "Calling EFI Application from Boot Option"]>>),
       Sha384Of(Bytes(<<0, 0, 0, 0>>)),
       calculateUEFIDiskGUIDHash,
       <<[t |-> "authenticode", v |-> <<kernelData.file, "uki">>]>>,
       <<[t |-> "authenticode", v |-> <<kernelData.file, ".linux">>]>>,
       Sha384Of(<<[t |-> "str", v |-> "Exit Boot Services Invocation"]>>),
       Sha384Of(<<[t |-> "str", v |-> "Exit Boot Services Returned with Success"]>>) >>

C4_Rtmr1IsSevenEntries ==
    ret.kind = "ok" =>
        /\ Len(C4_ExpectedLog) = 7
        /\ measurements.RTMR1 = MrAt(C4_ExpectedLog, 7)

C4_Witness ==
    /\ ret.kind = "ok"
    /\ kernelData = GoodUki(2)
    /\ measurements.RTMR1 = MrAt(C4_ExpectedLog, 7)

(***************************************************************************)
(* C5: RTMR2 is the extend of exactly two entries: SHA-384 of the command  *)
(* line in UTF-16LE with one terminating 0x0000 code unit (2n+2 bytes for  *)
(* an ASCII command line of n characters; "abc" gives 61 00 62 00 63 00    *)
(* 00 00), then SHA-384 of the initrd bytes, which for an empty initrd is  *)
(* SHA-384 of the empty byte string.                                       *)
(***************************************************************************)
C5_IsAscii(text) == \A i \in 1..Len(text) : text[i] < 128

\* UTF-16LE of an ASCII text with the terminating code unit, position by position.
C5_AsciiUtf16Nul(text) ==
    [i \in 1..(2 * Len(text) + 2) |->
        IF i % 2 = 1 /\ (i + 1) \div 2 <= Len(text) THEN text[(i + 1) \div 2] ELSE 0]

C5_ExpectedCmdline ==
    IF C5_IsAscii(kernelCmdline) THEN C5_AsciiUtf16Nul(kernelCmdline)
    ELSE IF kernelCmdline = <<99, 195, 169>> THEN <<99, 0, 233, 0, 0, 0>>
    ELSE <<>>

C5_ExpectedLog ==
    << Sha384Of(Bytes(C5_ExpectedCmdline)), Sha384Of(Bytes(initrdData)) >>

C5_Rtmr2IsCmdlineThenInitrd ==
    ret.kind = "ok" =>
        /\ measurements.RTMR2 = MrAt(C5_ExpectedLog, 2)
        /\ (kernelCmdline = <<97, 98, 99>> =>
                C5_ExpectedCmdline = <<97, 0, 98, 0, 99, 0, 0, 0>>)
        /\ (initrdData = <<>> => C5_ExpectedLog[2] = Sha384Of(<<>>))

C5_Witness ==
    /\ ret.kind = "ok"
    /\ kernelCmdline = <<97, 98, 99>>
    /\ initrdData = <<>>
    /\ measurements.RTMR2 =
          MrAt(<<Sha384Of(Bytes(<<97, 0, 98, 0, 99, 0, 0, 0>>)), Sha384Of(<<>>)>>, 2)

(***************************************************************************)
(* C6: generateWorkloadID(mrtd, rtmr0, rtmr1, rtmr2) returns the           *)
(* Keccak-256 digest of MRTD || RTMR0 || RTMR1 || RTMR2 || 112 zero bytes: *)
(* the padding is part of the hashed message and the result is 32 bytes.   *)
(***************************************************************************)
C6_WorkloadIdIsKeccakOverPaddedMessage ==
    (drvPc = "done" /\ drvCall = "generateWorkloadID") =>
        /\ drvOut.value =
              <<[t |-> "keccak256",
                 v |-> drvM.MRTD \o drvM.RTMR0 \o drvM.RTMR1 \o drvM.RTMR2
                       \o [i \in 1..112 |-> [t |-> "b", v |-> 0]]]>>
        /\ ByteLen(drvOut.value) = 32

(***************************************************************************)
(* C7: CalculateMrAggregated returns the hex of SHA-256 over MRTD ||       *)
(* RTMR0 || RTMR1 || RTMR2 || key-provider bytes and CalculateMrImage the  *)
(* hex of SHA-256 over MRTD || RTMR1 || RTMR2; two records that differ     *)
(* only in RTMR0 have the same MR_IMAGE, and a key provider with or        *)
(* without one leading "0x" gives the same MR_AGGREGATED.                  *)
(***************************************************************************)
C7_HexOf(digest) == <<[t |-> "hex", v |-> digest]>>
C7_Sha256Of(msg) == <<[t |-> "sha256", v |-> msg]>>

\* The bytes of the key providers of the model that are hex strings.
C7_KeyProviderBytes ==
    IF drvKp \in {<<97, 98>>, <<48, 120, 97, 98>>, <<65, 66>>}
    THEN <<[t |-> "b", v |-> 171]>>
    ELSE <<>>

C7_KeyProviderIsHex ==
    drvKp \in {<<>>, <<48, 120>>, <<97, 98>>, <<48, 120, 97, 98>>, <<65, 66>>}

\* A text that does not start with "0x", and drvKp without one leading "0x".
C7_NoPrefix(text) == ~(Len(text) >= 2 /\ text[1] = 48 /\ text[2] = 120)
C7_Stripped ==
    IF C7_NoPrefix(drvKp) THEN drvKp ELSE SubSeq(drvKp, 3, Len(drvKp))

C7_DerivedDigests ==
    /\ (drvPc = "done" /\ drvCall = "CalculateMrAggregated") =>
          /\ (drvOut.kind = "ok") = C7_KeyProviderIsHex
          /\ drvOut.kind = "ok" =>
                drvOut.value = C7_HexOf(C7_Sha256Of(
                    drvM.MRTD \o drvM.RTMR0 \o drvM.RTMR1 \o drvM.RTMR2
                    \o C7_KeyProviderBytes))
          /\ C7_NoPrefix(C7_Stripped) =>
                /\ CalculateMrAggregated(drvM, <<48, 120>> \o C7_Stripped) = drvOut
                /\ CalculateMrAggregated(drvM, C7_Stripped) = drvOut
    /\ (drvPc = "done" /\ drvCall = "CalculateMrImage") =>
          /\ drvOut.kind = "ok"
          /\ drvOut.value = C7_HexOf(C7_Sha256Of(drvM.MRTD \o drvM.RTMR1 \o drvM.RTMR2))
          /\ ByteLen(drvOut.value) = 64
          /\ \A r \in DrvRegisters :
                CalculateMrImage([drvM EXCEPT !.RTMR0 = r]) = drvOut

C7_Witness ==
    /\ drvPc = "done"
    /\ drvCall = "CalculateMrImage"
    /\ drvM.RTMR0 # <<>> /\ drvM.MRTD # <<>> /\ drvM.RTMR1 # drvM.RTMR2
    /\ drvOut.value = C7_HexOf(C7_Sha256Of(drvM.MRTD \o drvM.RTMR1 \o drvM.RTMR2))

(***************************************************************************)
(* C8: every record MeasureTdxQemu returns without error holds four        *)
(* 48-byte registers: MRTD, RTMR0, RTMR1 and RTMR2 are each 48 bytes long. *)
(***************************************************************************)
C8_FourRegistersOf48Bytes ==
    ret.kind = "ok" =>
        /\ ByteLen(measurements.MRTD) = 48
        /\ ByteLen(measurements.RTMR0) = 48
        /\ ByteLen(measurements.RTMR1) = 48
        /\ ByteLen(measurements.RTMR2) = 48

(***************************************************************************)
(* C9: when a stage of MeasureTdxQemu fails (CFV extraction, Authenticode  *)
(* parsing of the UKI, extraction of its .linux section, Authenticode      *)
(* parsing of that section) the call returns an error and a nil record; it *)
(* never aborts the process.                                               *)
(***************************************************************************)
C9_StageFails ==
    \/ cfvRet.kind \in {"error", "panic"}
    \/ ~kernelData.authOk
    \/ ~kernelData.peOk
    \/ kernelData.linux # "ok"

C9_FailureReturnsErrorAndNil ==
    (pc = "done" /\ configuration \in {"c3-standard-4", "c3-standard-8"}
        /\ C9_StageFails) =>
            ret = [kind |-> "error", isNil |-> TRUE]

(***************************************************************************)
(* C10: GetTdxMetadataSections returns a parsing error and no section list *)
(* whenever the 16 bytes before the 32-byte trailer are not the footer     *)
(* GUID, the footer's table length is zero or larger than the bytes        *)
(* available, the descriptor signature is not "TDVF", the descriptor       *)
(* version is not 1, or a section breaks the alignment/size invariants.    *)
(***************************************************************************)
\* a < b for little-endian byte strings of equal length.
RECURSIVE C10_Less(_, _)
C10_Less(a, b) ==
    IF a = <<>> THEN FALSE
    ELSE LET k == Len(a)
         IN  \/ a[k] < b[k]
             \/ a[k] = b[k] /\ C10_Less(SubSeq(a, 1, k - 1), SubSeq(b, 1, k - 1))

\* The section checks of the format: page-aligned address and size, size
\* not below the raw size, and raw size not below the size when extended.
C10_SectionBroken(sec) ==
    LET raw64 == sec.RawDataSize \o <<0, 0, 0, 0>>
    IN  \/ (sec.MemoryAddress[1] + 256 * sec.MemoryAddress[2]) % 4096 # 0
        \/ C10_Less(sec.MemorySize, raw64)
        \/ (sec.MemorySize[1] + 256 * sec.MemorySize[2]) % 4096 # 0
        \/ sec.Attributes[1] % 2 = 1 /\ C10_Less(raw64, sec.MemorySize)

C10_Malformed ==
    LET n == Len(fw)
        tablesLen == fw[n - 49] + 256 * fw[n - 48]
    IN  \/ SubSeq(fw, n - 47, n - 32) #
              <<222, 130, 181, 150, 178, 31, 247, 69, 186, 234, 163, 102, 197, 90, 8, 45>>
        \/ tablesLen = 0
        \/ tablesLen > n - 50
        \/ descriptor.kind = "ok" /\ descriptor.Signature # <<84, 68, 86, 70>>
        \/ descriptor.kind = "ok" /\ descriptor.Version # <<1, 0, 0, 0>>
        \/ \E i \in 1..Len(sections) : C10_SectionBroken(sections[i])

C10_MalformedFirmwareRejected ==
    (fwPc \in {"cfv", "done"} /\ secRet.kind # "none" /\ C10_Malformed) =>
        secRet = [kind |-> "error", sections |-> <<>>]

(***************************************************************************)
(* C11: GetConfigurationFirmwareVolume returns exactly the bytes           *)
(* fw[imageOffset .. imageOffset+rawDataSize) of the first section of type *)
(* 1 in parsed order, and returns an error, never reading past the buffer  *)
(* and never aborting, whenever that range does not lie inside the         *)
(* firmware buffer, also when the 32-bit sum wraps around.                 *)
(***************************************************************************)
C11_HasCfv == \E i \in 1..Len(secRet.sections) : secRet.sections[i].Type = <<1, 0, 0, 0>>

C11_First ==
    secRet.sections[CHOOSE i \in 1..Len(secRet.sections) :
        /\ secRet.sections[i].Type = <<1, 0, 0, 0>>
        /\ \A j \in 1..(i - 1) : secRet.sections[j].Type # <<1, 0, 0, 0>>]

\* A 4-byte little-endian value below 65536, as a number.
C11_Small(b4) == b4[3] = 0 /\ b4[4] = 0
C11_Val(b4) == b4[1] + 256 * b4[2]

C11_InBuffer ==
    /\ C11_Small(C11_First.ImageOffset)
    /\ C11_Small(C11_First.RawDataSize)
    /\ C11_Val(C11_First.ImageOffset) + C11_Val(C11_First.RawDataSize) <= Len(fw)

C11_CfvIsExactRangeOrError ==
    (fwPc = "done" /\ secRet.kind = "ok" /\ C11_HasCfv) =>
        IF C11_InBuffer
        THEN cfvRet = [kind |-> "ok",
                       bytes |-> SubSeq(fw, C11_Val(C11_First.ImageOffset) + 1,
                                        C11_Val(C11_First.ImageOffset)
                                        + C11_Val(C11_First.RawDataSize))]
        ELSE cfvRet = [kind |-> "error", bytes |-> <<>>]

(***************************************************************************)
(* C12: with the two-pass variant computeMrtd feeds every MEM.PAGE.ADD     *)
(* frame of every page of every section into the hash before the first     *)
(* MR.EXTEND frame of any section; with the single-pass variant each       *)
(* page's ADD frame is immediately followed by that page's EXTEND frames,  *)
(* section by section in parsed order.                                     *)
(***************************************************************************)
C12_SectionOf(gpa) == mtSections[gpa \div 1048576]

C12_AllAddsBeforeAnyExtend ==
    \A i, j \in 1..Len(mtHashed) :
        (i < j /\ mtHashed[i].op = "MR.EXTEND") => mtHashed[j].op # "MEM.PAGE.ADD"

C12_AddThenExtendPerPage ==
    \A i \in 1..Len(mtHashed) :
        /\ (/\ mtHashed[i].op = "MEM.PAGE.ADD"
            /\ C12_SectionOf(mtHashed[i].gpa).attributes % 2 = 1) =>
               /\ i < Len(mtHashed)
               /\ mtHashed[i + 1] = [op |-> "MR.EXTEND", gpa |-> mtHashed[i].gpa]
        /\ (/\ mtHashed[i].op = "MR.EXTEND"
            /\ mtHashed[i].gpa % 4096 = 0
            /\ C12_SectionOf(mtHashed[i].gpa).attributes < 2) =>
               /\ i > 1
               /\ mtHashed[i - 1] = [op |-> "MEM.PAGE.ADD", gpa |-> mtHashed[i].gpa]

C12_FrameOrderOfVariants ==
    (mtPc = "done" /\ mtRet.kind = "ok") =>
        /\ mtVariant = 0 => C12_AllAddsBeforeAnyExtend
        /\ mtVariant = 1 => C12_AddThenExtendPerPage

(***************************************************************************)
(* C13: for every firmware whose metadata has at least one section with    *)
(* the MR-extend attribute, whatever its page count and its page-augment   *)
(* attribute, computeMrtd with the two-pass variant and with the           *)
(* single-pass variant hash different byte sequences and return different  *)
(* digests.                                                                *)
(***************************************************************************)
C13_TwoPass == computeMrtd(mtSections, 0, mtFwLen)
C13_SinglePass == computeMrtd(mtSections, 1, mtFwLen)
C13_BothReturn == C13_TwoPass.kind = "ok" /\ C13_SinglePass.kind = "ok"

C13_Reordered ==
    \E i \in 1..Len(mtSections) :
        /\ mtSections[i].attributes = 1
        /\ mtSections[i].memoryDataSize >= 8192

C14_UnknownVariantNeverReturnsDigest ==
    (mtPc = "done" /\ mtVariant \notin {0, 1}) =>
        /\ mtRet.kind # "ok"
        /\ mtRet.digest = <<>>

(***************************************************************************)
(* C18: with SHA-384 collision-free, measureLog maps any two logs of the   *)
(* same length that differ in the order of their entries or in the bytes   *)
(* of a single entry to different register values; in particular swapping  *)
(* two different adjacent entries changes the result.                      *)
(***************************************************************************)
C18_Swapped(l, i) ==
    [k \in 1..Len(l) |-> IF k = i THEN l[i + 1] ELSE IF k = i + 1 THEN l[i] ELSE l[k]]

C18_MeasureLogIsInjective ==
    logPc = "done" =>
        /\ \A other \in SeqsUpTo(LogEntries, MaxLogLen) :
              (Len(other) = Len(log) /\ other # log) => measureLog(other) # logResult
        /\ \A i \in 1..(Len(log) - 1) :
              log[i] # log[i + 1] => measureLog(C18_Swapped(log, i)) # logResult

C18_Witness ==
    /\ logPc = "done"
    /\ Len(log) = 3
    /\ log[2] # log[3]
    /\ measureLog(C18_Swapped(log, 2)) # logResult
    /\ measureLog(<<log[1], log[3], log[3]>>) # logResult

(***************************************************************************)
(* C19: every section of a metadata value that parseTdvfMetadata returns   *)
(* without error has memoryAddress and memorySize multiples of 4096 and    *)
(* memorySize >= rawDataSize, and with the MR-extend attribute rawDataSize *)
(* = memorySize; a firmware in which any declared section violates this    *)
(* yields an error and no metadata, never a list truncated before the      *)
(* offending section.                                                      *)
(***************************************************************************)
\* The number held by little-endian bytes; the images of the model keep
\* every field below 2^24.
C19_Num(bs) == bs[1] + 256 * bs[2] + 65536 * bs[3]

\* The descriptor of the images lies at offset 4: the number of declared
\* sections at offset 16, the i-th declared section at offset 20 + 32 (i - 1).
C19_Declared == fw[17]
C19_DeclaredSection(i) == SubSeq(fw, 20 + 32 * (i - 1) + 1, 20 + 32 * i)

C19_Sound(addr, mem, raw, extend) ==
    /\ addr % 4096 = 0
    /\ mem % 4096 = 0
    /\ mem >= raw
    /\ extend => raw = mem

C19_DeclaredSound(i) ==
    LET b == C19_DeclaredSection(i)
    IN  C19_Sound(C19_Num(SubSeq(b, 9, 16)), C19_Num(SubSeq(b, 17, 24)),
                  C19_Num(SubSeq(b, 5, 8)), b[29] % 2 = 1)

C19_ReturnedSectionsAreSound ==
    tvPc = "done" =>
        /\ tvRet.kind = "ok" =>
              /\ Len(tvRet.sections) = C19_Declared
              /\ \A i \in 1..Len(tvRet.sections) :
                    LET sec == tvRet.sections[i]
                    IN  C19_Sound(C19_Num(sec.memoryAddress), C19_Num(sec.memoryDataSize),
                                  C19_Num(sec.rawDataSize), sec.attributes[1] % 2 = 1)
        /\ (\E i \in 1..C19_Declared : ~C19_DeclaredSound(i)) =>
              tvRet = [kind |-> "error", sections |-> <<>>]

C19_Witness ==
    /\ tvPc = "done"
    /\ C19_Declared = 2
    /\ C19_DeclaredSound(1) /\ ~C19_DeclaredSound(2)
    /\ Len(tvSections) = 1
    /\ tvRet = [kind |-> "error", sections |-> <<>>]

(***************************************************************************)
(* C20: measureTdxQemuTdHob hashes a blob made of the 56-byte header, the  *)
(* seven fixed 48-byte resource records (lengths summing to 0x820000), and *)
(* then: for memorySize < 0xB0000000 exactly one record at 0x820000 of     *)
(* length memorySize - 0x820000 (440 bytes in total); for memorySize >=    *)
(* 0xB0000000 exactly two records, one at 0x820000 of length 0x7F7E0000    *)
(* and one at 0x100000000 of length memorySize - 0x80000000 (488 bytes);   *)
(* 0xB0000000 itself takes the two-record branch.  Lengths are uint64      *)
(* values, so a difference is taken modulo 2^64.                           *)
(***************************************************************************)
\* Record k of the blob (k = 1 is the first after the header), its fields.
C20_Record(k) == SubSeq(tdHob, 56 + 48 * (k - 1) + 1, 56 + 48 * k)
C20_Start(k) == SubSeq(C20_Record(k), 33, 40)
C20_Length(k) == SubSeq(C20_Record(k), 41, 48)
C20_Num(b8) == b8[1] + 256 * b8[2] + 65536 * b8[3] + 16777216 * b8[4]

C20_TwoRecordSizes ==
    { <<0, 0, 0, 176, 0, 0, 0, 0>>, <<1, 0, 0, 176, 0, 0, 0, 0>>,
      <<0, 0, 0, 0, 1, 0, 0, 0>>, <<0, 0, 0, 0, 4, 0, 0, 0>> }

\* memorySize - 0x820000 for the sizes below 0xB0000000 of the model.
C20_OneRecordLength ==
    CASE hobMemorySize = <<0, 0, 0, 0, 0, 0, 0, 0>> -> <<0, 0, 126, 255, 255, 255, 255, 255>>
      [] hobMemorySize = <<0, 0, 130, 0, 0, 0, 0, 0>> -> <<0, 0, 0, 0, 0, 0, 0, 0>>
      [] hobMemorySize = <<0, 0, 0, 32, 0, 0, 0, 0>> -> <<0, 0, 126, 31, 0, 0, 0, 0>>
      [] hobMemorySize = <<0, 0, 0, 128, 0, 0, 0, 0>> -> <<0, 0, 126, 127, 0, 0, 0, 0>>
      [] hobMemorySize = <<255, 255, 255, 175, 0, 0, 0, 0>> -> <<255, 255, 125, 175, 0, 0, 0, 0>>
      [] OTHER -> <<>>

\* memorySize - 0x80000000 for the sizes from 0xB0000000 of the model.
C20_SecondRecordLength ==
    CASE hobMemorySize = <<0, 0, 0, 176, 0, 0, 0, 0>> -> <<0, 0, 0, 48, 0, 0, 0, 0>>
      [] hobMemorySize = <<1, 0, 0, 176, 0, 0, 0, 0>> -> <<1, 0, 0, 48, 0, 0, 0, 0>>
      [] hobMemorySize = <<0, 0, 0, 0, 1, 0, 0, 0>> -> <<0, 0, 0, 128, 0, 0, 0, 0>>
      [] hobMemorySize = <<0, 0, 0, 0, 4, 0, 0, 0>> -> <<0, 0, 0, 128, 3, 0, 0, 0>>
      [] OTHER -> <<>>

C20_FixedPart ==
    /\ SubSeq(tdHob, 1, 4) = <<1, 0, 56, 0>>
    /\ \A k \in 1..((Len(tdHob) - 56) \div 48) :
          SubSeq(C20_Record(k), 1, 4) = <<3, 0, 48, 0>>
    /\ C20_Num(C20_Start(1)) = 0
    /\ \A k \in 1..6 :
          C20_Num(C20_Start(k + 1)) = C20_Num(C20_Start(k)) + C20_Num(C20_Length(k))
    /\ C20_Num(C20_Start(7)) + C20_Num(C20_Length(7)) = 8519680

C20_TdHobBlob ==
    hobPc = "done" =>
        /\ hobRet = <<[t |-> "sha384", v |-> [i \in 1..Len(tdHob) |-> [t |-> "b", v |-> tdHob[i]]]]>>
        /\ C20_FixedPart
        /\ C20_Start(8) = <<0, 0, 130, 0, 0, 0, 0, 0>>
        /\ IF hobMemorySize \in C20_TwoRecordSizes
           THEN /\ Len(tdHob) = 488
                /\ C20_Length(8) = <<0, 0, 126, 127, 0, 0, 0, 0>>
                /\ C20_Start(9) = <<0, 0, 0, 0, 1, 0, 0, 0>>
                /\ C20_Length(9) = C20_SecondRecordLength
           ELSE /\ Len(tdHob) = 440
                /\ C20_Length(8) = C20_OneRecordLength

C20_Witness ==
    /\ hobPc = "done"
    /\ hobMemorySize = <<0, 0, 0, 176, 0, 0, 0, 0>>
    /\ Len(tdHob) = 488
    /\ C20_Length(9) = <<0, 0, 0, 48, 0, 0, 0, 0>>

(***************************************************************************)
(* C15: for every two configuration names of the configuration table and   *)
(* the same firmware, UKI, initrd and command line, MeasureTdxQemu returns *)
(* the same RTMR1 and the same RTMR2; so the RTMR1 and RTMR2 that batch    *)
(* mode reports, taken from the run for the first configuration, are the   *)
(* RTMR1 and RTMR2 of every configuration of the batch.                    *)
(***************************************************************************)
C15_Run(name) ==
    MeasureTdxQemu(fw, fwCap, kernelData, initrdData, kernelCmdline, name)

C15_Rtmr12IgnoreConfiguration ==
    /\ \A a, b \in DOMAIN machineConfigurations :
          C15_Run(a).kind = "ok" /\ C15_Run(b).kind = "ok" =>
              /\ C15_Run(a).m.RTMR1 = C15_Run(b).m.RTMR1
              /\ C15_Run(a).m.RTMR2 = C15_Run(b).m.RTMR2
    /\ batchPc = "done" =>
          /\ Len(measured) = Len(configurations)
          /\ \A i \in 1..Len(configurations) :
                /\ measured[i] = C15_Run(configurations[i]).m
                /\ output.RTMR1 = hexEncodeToString(measured[i].RTMR1)
                /\ output.RTMR2 = hexEncodeToString(measured[i].RTMR2)

C15_Witness ==
    /\ batchPc = "done"
    /\ Len(measured) = 2
    /\ configurations[1] # configurations[2]
    /\ measured[1].RTMR0 # measured[2].RTMR0
    /\ output.RTMR1 = hexEncodeToString(measured[2].RTMR1)

(***************************************************************************)
(* C16: in batch mode the output holds one RTMR0/MRTD pair for each        *)
(* requested configuration: after the loop over n configurations the       *)
(* RTMR0 list and the MRTD list both have n elements, element i of each    *)
(* belonging to the i-th configuration in request order.                   *)
(***************************************************************************)
C16_Rtmr0Of(name) ==
    hexEncodeToString(
        MeasureTdxQemu(fw, fwCap, kernelData, initrdData, kernelCmdline, name).m.RTMR0)

C16_OnePairPerConfiguration ==
    batchPc = "done" =>
        /\ Len(output.RTMR0) = Len(configurations)
        /\ Len(output.MRTD) = Len(configurations)
        /\ \A i \in 1..Len(configurations) :
              output.RTMR0[i] = C16_Rtmr0Of(configurations[i])

(***************************************************************************)
(* C17: measurement runs share no mutable state.  A run of MeasureTdxQemu  *)
(* or of generateWorkloadID, whether it succeeds or fails, leaves the      *)
(* firmware, kernel and initrd buffers and the 112-byte workloadFooter     *)
(* (all zero, length 112) unchanged; the configuration table is only ever  *)
(* read.  So under any interleaving of runs for different configurations   *)
(* each run that returns, returns what it returns when run alone.          *)
(***************************************************************************)
C17_Alone(r) ==
    MeasureTdxQemu(fw, fwCap, kernelData, initrdData, kernelCmdline, parConfig[r])

C17_SharedUnchanged ==
    /\ fw' = fw /\ fwCap' = fwCap
    /\ kernelData' = kernelData /\ initrdData' = initrdData
    /\ kernelCmdline' = kernelCmdline
    /\ footerMem' = footerMem

C17_AsAlone ==
    /\ footerMem = Raw(Zeros(112))
    /\ \A r \in Runs :
          parPc[r] = "done" =>
              /\ parOut[r].kind = C17_Alone(r).kind
              /\ parOut[r].kind = "ok" =>
                    /\ parOut[r].m = C17_Alone(r).m
                    /\ parOut[r].id =
                          generateWorkloadID(C17_Alone(r).m.MRTD, C17_Alone(r).m.RTMR0,
                                             C17_Alone(r).m.RTMR1,
                                             C17_Alone(r).m.RTMR2).value

C17_RunsShareNoMutableState == []C17_AsAlone /\ [][C17_SharedUnchanged]_vars

C17_Witness ==
    /\ parPc[1] = "done" /\ parPc[2] = "done"
    /\ parConfig[1] # parConfig[2]
    /\ parOut[1].kind = "ok" /\ ByteLen(parOut[1].id) = 144
    /\ parOut[2].kind = "error"

(***************************************************************************)
(* C21: in the blob hashed by measureTdxQemuTdHob, bytes 48..55 hold,      *)
(* little-endian, hobBaseAddress + len(blob) + 8, where len(blob) counts   *)
(* the header and all emitted records and hobBaseAddress is the            *)
(* memoryAddress of the first section of type TD-HOB (2) of the metadata,  *)
(* or 0x809000 when there is no metadata or no such section; the patch     *)
(* changes no byte outside 48..55.                                         *)
(***************************************************************************)
\* 0x809000 + 448, 0x809000 + 496, 0x80A000 + 448, 0x80A000 + 496.
C21_Pointer ==
    IF hobMeta = "nil" \/ hobMeta = <<>>
    THEN IF Len(tdHob) = 440 THEN <<192, 145, 128, 0, 0, 0, 0, 0>>
                             ELSE <<240, 145, 128, 0, 0, 0, 0, 0>>
    ELSE IF Len(tdHob) = 440 THEN <<192, 161, 128, 0, 0, 0, 0, 0>>
                             ELSE <<240, 161, 128, 0, 0, 0, 0, 0>>

C21_Patch ==
    hobPc = "end" =>
        /\ Len(tdHob) \in {440, 488}
        /\ Len(tdHob') = Len(tdHob)
        /\ \A i \in (1..Len(tdHob)) \ (49..56) : tdHob'[i] = tdHob[i]
        /\ SubSeq(tdHob', 49, 56) = C21_Pointer
        /\ hobRet' = measureSha384(Raw(tdHob'))

C21_EndOfHobList == [][C21_Patch]_vars

C21_Witness ==
    /\ hobPc = "done"
    /\ hobMeta # "nil" /\ Len(hobMeta) = 2 /\ hobMeta[2].memoryAddress = 8433664
    /\ Len(tdHob) = 488
    /\ SubSeq(tdHob, 49, 56) = <<240, 161, 128, 0, 0, 0, 0, 0>>

(***************************************************************************)
(* C22: calculateUEFIDiskGUIDHash hashes exactly 228 bytes: the 92-byte    *)
(* GPT header, the 8-byte little-endian value 1, then the 128-byte ESP     *)
(* entry.  The header inside that blob carries the CRC32 of the 128 x 128  *)
(* byte partition array (the one entry followed by zeros) and a header     *)
(* CRC32 computed over the 92 header bytes after the array CRC was stored  *)
(* and while the header-CRC field was still zero.                          *)
(***************************************************************************)
C22_Entry ==
    Raw(<<40, 115, 42, 193, 31, 248, 210, 17, 186, 75, 0, 160, 201, 62, 201, 59>>
        \o <<33, 67, 101, 135, 33, 67, 101, 135, 67, 33, 135, 101, 67, 33, 135, 101>>
        \o <<0, 8, 0, 0, 0, 0, 0, 0>> \o <<255, 167, 15, 0, 0, 0, 0, 0>>
        \o <<1, 0, 0, 0, 0, 0, 0, 0>>
        \o <<69, 0, 83, 0, 80, 0>> \o Zeros(66))

C22_ArrayCrc == <<[t |-> "crc32", v |-> C22_Entry \o Raw(Zeros(127 * 128))]>>

\* Signature, Revision, HeaderSize.
C22_BeforeCrc == Raw(<<69, 70, 73, 32, 80, 65, 82, 84, 0, 0, 1, 0, 92, 0, 0, 0>>)

\* Reserved .. SizeOfPartitionEntry, then PartitionEntryArrayCRC32.
C22_AfterCrc ==
    Raw(<<0, 0, 0, 0>> \o <<1, 0, 0, 0, 0, 0, 0, 0>> \o <<255, 255, 31, 0, 0, 0, 0, 0>>
        \o <<34, 0, 0, 0, 0, 0, 0, 0>> \o <<222, 255, 31, 0, 0, 0, 0, 0>>
        \o <<120, 86, 52, 18, 52, 18, 120, 86, 18, 52, 86, 120, 18, 52, 86, 120>>
        \o <<2, 0, 0, 0, 0, 0, 0, 0>> \o <<128, 0, 0, 0>> \o <<128, 0, 0, 0>>)
    \o C22_ArrayCrc

C22_HeaderCrc ==
    <<[t |-> "crc32", v |-> C22_BeforeCrc \o Raw(<<0, 0, 0, 0>>) \o C22_AfterCrc]>>

C22_Header == C22_BeforeCrc \o C22_HeaderCrc \o C22_AfterCrc

C22_GptBlob ==
    gptPc = "done" =>
        /\ gptBuf = C22_Header \o Raw(<<1, 0, 0, 0, 0, 0, 0, 0>>) \o C22_Entry
        /\ gptRet = <<[t |-> "sha384", v |-> gptBuf]>>
        /\ ByteLen(C22_Header) = 92
        /\ ByteLen(C22_Entry) = 128
        /\ ByteLen(gptBuf) = 228

C22_Witness ==
    /\ gptPc = "done"
    /\ ByteLen(gptBuf) = 228
    /\ gptHeader.HeaderCRC32 = C22_HeaderCrc

(***************************************************************************)
(* C24: for every GUID in the canonical 8-4-4-4-12 hex form encodeGUID     *)
(* returns 16 bytes: the bytes of groups 1, 2 and 3 each in reversed       *)
(* order, followed by the bytes of groups 4 and 5 unchanged, so that       *)
(* "12345678-1234-5678-1234-567812345678" gives 78 56 34 12 34 12 78 56    *)
(* 12 34 56 78 12 34 56 78; an input with a group that is not valid hex is *)
(* rejected (the call panics), never encoded.                              *)
(***************************************************************************)
C24_IsHex(c) == (c >= 48 /\ c <= 57) \/ (c >= 97 /\ c <= 102) \/ (c >= 65 /\ c <= 70)
C24_Val(c) == IF c <= 57 THEN c - 48 ELSE IF c >= 97 THEN c - 87 ELSE c - 55

C24_Canonical ==
    /\ Len(egGuid) = 36
    /\ \A i \in 1..36 :
          IF i \in {9, 14, 19, 24} THEN egGuid[i] = 45 ELSE C24_IsHex(egGuid[i])

\* The groups of the text: the maximal runs without a hyphen, as <<lo, hi>>.
C24_Runs ==
    { <<lo, hi>> \in (1..Len(egGuid)) \X (1..Len(egGuid)) :
        /\ lo <= hi
        /\ \A i \in lo..hi : egGuid[i] # 45
        /\ lo = 1 \/ egGuid[lo - 1] = 45
        /\ hi = Len(egGuid) \/ egGuid[hi + 1] = 45 }

C24_BadGroup ==
    \E r \in C24_Runs :
        \/ (r[2] - r[1] + 1) % 2 = 1
        \/ \E i \in r[1]..r[2] : ~C24_IsHex(egGuid[i])

\* Where in the text the two digits of each output byte start.
C24_Pos == <<7, 5, 3, 1, 12, 10, 17, 15, 20, 22, 25, 27, 29, 31, 33, 35>>

C24_EncodeGuid ==
    egPc = "done" =>
        /\ egRet = encodeGUID(egGuid)
        /\ C24_Canonical =>
              /\ egRet.kind = "ok"
              /\ Len(egRet.bytes) = 16
              /\ \A k \in 1..16 :
                    egRet.bytes[k] = 16 * C24_Val(egGuid[C24_Pos[k]])
                                     + C24_Val(egGuid[C24_Pos[k] + 1])
        /\ egGuid = diskGUID =>
              egRet.bytes = <<120, 86, 52, 18, 52, 18, 120, 86,
                              18, 52, 86, 120, 18, 52, 86, 120>>
        /\ C24_BadGroup => egRet.kind = "panic" /\ egRet.bytes = <<>>

C24_Witness ==
    /\ egPc = "done"
    /\ C24_Canonical
    /\ egGuid = efiSystemPartitionGUID
    /\ egRet.bytes = <<40, 115, 42, 193, 31, 248, 210, 17,
                       186, 75, 0, 160, 201, 62, 201, 59>>

(***************************************************************************)
(* C23: for a section of n = memoryDataSize / 4096 pages computeMrtd       *)
(* hashes one 128-byte MEM.PAGE.ADD frame per page exactly when the        *)
(* page-augment attribute is clear, with the address memoryAddress +       *)
(* p * 4096 at bytes 16..23, and 16 MR.EXTEND frames per page exactly when *)
(* the MR-extend attribute is set, with the chunk addresses memoryAddress  *)
(* + p * 4096 + i * 256 for i = 0..15 in increasing order, each frame      *)
(* immediately followed by the 256 firmware bytes at dataOffset +          *)
(* p * 4096 + i * 256; a section with page-augment set and MR-extend clear *)
(* adds nothing to the hash.                                               *)
(***************************************************************************)
C23_Num(bs) == bs[1] + 256 * bs[2] + 65536 * bs[3] + 16777216 * bs[4]

\* The layout of one 128-byte frame.
C23_FrameBytes(f) ==
    LET n == IF f.op = "MEM.PAGE.ADD" THEN 12 ELSE 9
    IN  /\ DOMAIN tdcallBuf(f) = 1..128
        /\ C23_Num([k \in 1..4 |-> tdcallBuf(f)[16 + k]]) = f.gpa
        /\ \A k \in ((n + 1)..16) \cup (21..128) : tdcallBuf(f)[k] = 0
        /\ \A k \in 1..n : tdcallBuf(f)[k] # 0

\* Every address a frame of the model can carry has that layout.
C23_Layout ==
    \A i \in 1..MaxMrtdSections : \A c \in 0..(16 * MaxPages - 1) :
        /\ C23_FrameBytes([op |-> "MEM.PAGE.ADD", gpa |-> 1048576 * i + 256 * c])
        /\ C23_FrameBytes([op |-> "MR.EXTEND", gpa |-> 1048576 * i + 256 * c])

C23_Frames(op) == SelectSeq(mtHashed, LAMBDA f : f.op = op)

C23_Increasing(q) == \A k \in 1..(Len(q) - 1) : q[k].gpa < q[k + 1].gpa

\* A frame belongs to a page (or chunk) of a section with the attribute
\* that asks for it.
C23_Asked(f) ==
    /\ f.gpa \div 1048576 \in 1..Len(mtSections)
    /\ LET s == mtSections[f.gpa \div 1048576]
           off == f.gpa - s.memoryAddress
       IN  /\ off >= 0 /\ off < s.memoryDataSize
           /\ IF f.op = "MEM.PAGE.ADD"
              THEN off % 4096 = 0 /\ (s.attributes \div 2) % 2 = 0
              ELSE off % 256 = 0 /\ s.attributes % 2 = 1

\* What follows every MR.EXTEND frame, and only such a frame.
C23_ChunkFollows ==
    \A k \in 1..Len(mtHashed) :
        /\ mtHashed[k].op = "MR.EXTEND" =>
              LET s == mtSections[mtHashed[k].gpa \div 1048576]
                  lo == s.dataOffset + (mtHashed[k].gpa - s.memoryAddress)
              IN  IF k < Len(mtHashed)
                  THEN mtHashed[k + 1] = [op |-> "chunk", lo |-> lo, hi |-> lo + 256]
                  ELSE mtRet.kind = "panic" /\ lo + 256 > mtFwLen
        /\ mtHashed[k].op = "chunk" => k > 1 /\ mtHashed[k - 1].op = "MR.EXTEND"
        /\ mtHashed[k].op # "chunk" => C23_Asked(mtHashed[k])

\* The number of frames of section i once computeMrtd has returned a digest.
C23_Of(i, q) == Cardinality({k \in 1..Len(q) : q[k].gpa \div 1048576 = i})

C23_SectionFrames(i) ==
    LET s == mtSections[i]
        n == s.memoryDataSize \div 4096
    IN  /\ C23_Of(i, C23_Frames("MEM.PAGE.ADD")) =
              IF (s.attributes \div 2) % 2 = 0 THEN n ELSE 0
        /\ C23_Of(i, C23_Frames("MR.EXTEND")) =
              IF s.attributes % 2 = 1 THEN 16 * n ELSE 0

\* No address occurs twice among the frames of one kind, so the counts of
\* C23_SectionFrames say that every page and every chunk asked for has
\* exactly one frame; the chunks of a page come in increasing order.
C23_FramesPerPage ==
    /\ C23_Layout
    /\ mtPc = "done" =>
          /\ C23_ChunkFollows
          /\ C23_Increasing(C23_Frames("MEM.PAGE.ADD"))
          /\ C23_Increasing(C23_Frames("MR.EXTEND"))
    /\ (mtPc = "done" /\ mtRet.kind = "ok") =>
          /\ mtRet.digest = <<[t |-> "sha384", v |-> mtHashed]>>
          /\ \A i \in 1..Len(mtSections) : C23_SectionFrames(i)

C23_Witness ==
    /\ mtPc = "done" /\ mtRet.kind = "ok"
    /\ Len(mtSections) = 2
    /\ mtSections[1].attributes = 2 /\ mtSections[1].memoryDataSize = 8192
    /\ mtSections[2].attributes = 1 /\ mtSections[2].memoryDataSize = 8192
    /\ Len(mtHashed) = 66
    /\ mtHashed[36] = [op |-> "chunk", lo |-> 4352, hi |-> 4608]

(***************************************************************************)
(* C25: the backward walk over the GUID table in parseTdvfMetadata         *)
(* terminates on every firmware buffer: each iteration either finds the    *)
(* GUID, returns an error, or strictly decreases the offset, also when an  *)
(* entry that does not match declares the length 0.                        *)
(***************************************************************************)
C25_EntryLen == fw[tvTablesLo + tvOffset - 17] + 256 * fw[tvTablesLo + tvOffset - 16]
C25_Guid == SubSeq(fw, tvTablesLo + tvOffset - 15, tvTablesLo + tvOffset)

C25_IterationMakesProgress ==
    tvPc = "tables" =>
        \/ tvOffset < 18
        \/ tvOffset < 18 + C25_EntryLen
        \/ C25_Guid = tdxMetadataOffsetGuidBytes
        \/ tvOffset - C25_EntryLen < tvOffset

(***************************************************************************)
(* C26: for every firmware that parseTdvfMetadata accepts, computeMrtd on  *)
(* the metadata returned reads only offsets inside the buffer: every chunk *)
(* range [dataOffset + p * 4096 + i * 256, + 256) of a section with the    *)
(* MR-extend attribute lies within [0, len(fw)).                           *)
(***************************************************************************)
\* The sections returned, with their fields as numbers.
C26_Sections ==
    [i \in 1..Len(tvRet.sections) |->
        [dataOffset |-> U32Int(tvRet.sections[i].dataOffset),
         memoryAddress |-> U32Int(SubSeq(tvRet.sections[i].memoryAddress, 1, 4)),
         memoryDataSize |-> U32Int(SubSeq(tvRet.sections[i].memoryDataSize, 1, 4)),
         attributes |-> tvRet.sections[i].attributes[1] % 4]]

C26_ChunkRanges(variant) ==
    LET frames == mrtdSectionsFrom(C26_Sections, variant, Len(fw)).frames
    IN  {<<frames[k].lo, frames[k].hi>> :
            k \in {j \in 1..Len(frames) : frames[j].op = "chunk"}}

C26_ChunksInsideFirmware ==
    (tvPc = "done" /\ tvRet.kind = "ok") =>
        \A variant \in {mrtdVariantTwoPass, mrtdVariantSinglePass} :
            /\ computeMrtd(C26_Sections, variant, Len(fw)).kind = "ok"
            /\ \A r \in C26_ChunkRanges(variant) : 0 <= r[1] /\ r[2] <= Len(fw)
            /\ \A i \in 1..Len(C26_Sections) :
                  C26_Sections[i].attributes % 2 = 1 =>
                      C26_Sections[i].dataOffset + C26_Sections[i].memoryDataSize
                          <= Len(fw)

(***************************************************************************)
(* C27: for every 64-bit memorySize, 0 and the values below 0x820000       *)
(* included, the lengths of all resource records sum to memorySize without *)
(* wrapping around in uint64: remainingMemory never goes below zero, and   *)
(* no record has a Length greater than memorySize.                         *)
(***************************************************************************)
\* The Length field of the k-th resource record of the blob built so far.
C27_Length(k) == SubSeq(tdHob, 56 + 48 * (k - 1) + 41, 56 + 48 * k)

C27_LengthsWithinMemorySize ==
    /\ hobPc \in {"fixed", "above", "end", "done"} =>
          \* remainingMemory <= memorySize, as unsigned numbers
          ~ULess(hobMemorySize, remainingMemory)
    /\ hobPc = "done" =>
          /\ remainingMemory = Zeros(8)
          /\ \A k \in 1..((Len(tdHob) - 56) \div 48) :
                ~ULess(hobMemorySize, C27_Length(k))

(***************************************************************************)
(* C28: when the GUID table parses but holds no entry for the TDX metadata *)
(* offset GUID, or that entry's payload is shorter than 4 bytes,           *)
(* GetTdxMetadataSections returns an error; it neither aborts nor goes on  *)
(* with a default offset.                                                  *)
(***************************************************************************)
C28_TableParsed == ParseGuidMap(fw).kind = "ok" /\ guidMap = ParseGuidMap(fw).map

C28_NoUsableOffsetEntry ==
    \/ TdxMetadataOffsetGuid \notin DOMAIN guidMap
    \/ guidMap[TdxMetadataOffsetGuid][2] - guidMap[TdxMetadataOffsetGuid][1] < 4

C28_MissingOffsetIsAnError ==
    (fwPc = "done" /\ C28_TableParsed /\ C28_NoUsableOffsetEntry) =>
        secRet = [kind |-> "error", sections |-> <<>>]

(***************************************************************************)
(* C29: MeasureTdxQemu with a configuration ignores memorySize and         *)
(* cpuCount: two runs that differ only in those two arguments return       *)
(* identical RTMR0, RTMR1 and RTMR2, or fail in the same way.  Stated for  *)
(* one run: the outcome and the three registers are the values below,      *)
(* which are written in terms of the firmware, the UKI, the initrd, the    *)
(* command line and the configuration name alone.                          *)
(***************************************************************************)
C29_Outcome ==
    IF configuration \notin {"c3-standard-4", "c3-standard-8"} THEN "error"
    ELSE IF GetConfigurationFirmwareVolume(fw, fwCap).kind # "ok"
    THEN GetConfigurationFirmwareVolume(fw, fwCap).kind
    ELSE IF ~kernelData.authOk THEN "error"
    ELSE IF ~kernelData.peOk \/ kernelData.linux \in {"missing", "unreadable"}
    THEN "panic"
    ELSE IF kernelData.linux # "ok" THEN "error"
    ELSE "ok"

C29_Event(field) == <<[t |-> "const384", v |-> <<configuration, field>>]>>

C29_Rtmr0 ==
    measureLog(<< C29_Event("TdHobHash"),
                  measureSha384(Raw(GetConfigurationFirmwareVolume(fw, fwCap).bytes)),
                  secureBootHash, pkHash, kekHash, dbHash, dbxHash,
                  measureSha384(Raw(<<0, 0, 0, 0>>)),
                  C29_Event("AcpiLoaderHash"), C29_Event("AcpiRsdpHash"),
                  C29_Event("AcpiTablesHash"),
                  measureSha384(Raw(<<1, 0, 2, 0, 0, 0>>)),
                  boot0001Hash, boot0002Hash, boot0000Hash >>)

C29_Rtmr1 ==
    measureLog(<< measureSha384(Str("Calling EFI Application from Boot Option")),
                  measureSha384(Raw(<<0, 0, 0, 0>>)),
                  calculateUEFIDiskGUIDHash,
                  authenticodeHash(<<kernelData.file, "uki">>),
                  authenticodeHash(<<kernelData.file, ".linux">>),
                  measureSha384(Str("Exit Boot Services Invocation")),
                  measureSha384(Str("Exit Boot Services Returned with Success")) >>)

C29_Rtmr2 ==
    measureLog(<<measureTdxKernelCmdline(kernelCmdline), measureSha384(Raw(initrdData))>>)

C29_IgnoresMemorySizeAndCpuCount ==
    pc = "done" =>
        /\ ret.kind = C29_Outcome
        /\ ret.kind = "ok" =>
              /\ measurements.RTMR0 = C29_Rtmr0
              /\ measurements.RTMR1 = C29_Rtmr1
              /\ measurements.RTMR2 = C29_Rtmr2

C29_Witness ==
    /\ pc = "done" /\ ret.kind = "ok"
    /\ configuration = "c3-standard-4"
    /\ memorySize = 2048 /\ cpuCount = 2
    /\ measurements.RTMR0 = C29_Rtmr0

(***************************************************************************)
(* C30: when the section list holds no section of type 1 (the empty list   *)
(* included), GetConfigurationFirmwareVolume returns the empty range       *)
(* fw[0:0] with no error, so GetExpectedCfvSha384 returns the SHA-384 of   *)
(* the empty string and the run goes on.                                   *)
(***************************************************************************)
C30_NoCfvSection ==
    /\ secRet.kind = "ok"
    /\ \A i \in 1..Len(secRet.sections) : secRet.sections[i].Type # <<1, 0, 0, 0>>

C30_EmptyCfvWhenNoTypeOneSection ==
    (fwPc = "done" /\ C30_NoCfvSection) =>
        /\ cfvRet = [kind |-> "ok", bytes |-> <<>>]
        /\ pc \notin {"lookup", "cfv"} =>
              /\ locals.cfvImageHash = <<[t |-> "sha384", v |-> <<>>]>>
              /\ measurements.RTMR0 # <<>>
              /\ ret.kind \in {"error", "panic"} =>
                    ~kernelData.authOk \/ ~kernelData.peOk \/ kernelData.linux # "ok"

C30_Witness ==
    /\ pc = "done" /\ ret.kind = "ok"
    /\ C30_NoCfvSection
    /\ Len(secRet.sections) = 1
    /\ locals.cfvImageHash = <<[t |-> "sha384", v |-> <<>>]>>

====
